---- MODULE Spec2Model ----
(***************************************************************************)
(* Model of the pygod status monitor: the edge-triggered Rule              *)
(* (src/pygod/status_processing/rule.py) and the Monitor that polls the    *)
(* hero state and feeds it to its rules (src/pygod/pygod.py).              *)
(*                                                                         *)
(* Python values are modelled by strings: "None", "False", "True" and      *)
(* "Other" (a value that is truthy but is neither True nor 1, such as 2   *)
(* or a non-empty string).  A dict is a function from its keys.            *)
(***************************************************************************)
EXTENDS Naturals, Sequences, FiniteSets, TLC

VARIABLES
    \* ---- one Rule object driven by arbitrary check calls (SpecRule) ----
    rule,         \* the Rule object: check_active, ignore_first_result, last_result
    created,      \* ghost: the Rule as Rule.__init__ left it
    ncalls,       \* ghost: number of check calls made so far
    last_call,    \* ghost: inputs and outputs of the most recent check call
    observed,     \* ghost: condition result of the most recent evaluated call
    evals,        \* ghost: number of calls whose condition returned a value
    rises,        \* ghost: number of evaluated calls that went falsy -> truthy
    flag_changes, \* ghost: number of calls that changed ignore_first_result
    clean,        \* ghost: no call so far was skipped or had its condition raise
    all_bool,     \* ghost: every condition result so far was False or True
    acted_in_run, \* ghost: action invocations in the current run of equal results
    \* ---- the Monitor process (Spec) ----
    mon,          \* the Monitor object (its attributes, and the ghost field cycle)
    pc,           \* where main_loop is: "read" (read_state), "check" (the loop
                  \* of check_status), "render", "tick" (top of the loop),
                  \* "key" (handle_key); "exit": sys.exit was called,
                  \* "crashed": an exception left main_loop
    first,        \* main_loop is in the cycle before its loop
    ri,           \* check_status: index of the rule to check next
    exit_status,  \* the exit status of the process, None while it runs
    prev_hour,    \* main_loop's prev_hour
    \* ---- parts of the program run on their own (SpecInit, SpecLoad) ----
    reg,          \* init_status_checkers: the loop over CUSTOM_RULES
    load          \* one call of load_hero_state

ruleVars == <<rule, created, ncalls, last_call, observed, evals, rises,
              flag_changes, clean, all_bool, acted_in_run>>

monVars == <<mon, pc, first, ri, exit_status, prev_hour>>

sideVars == <<reg, load>>

vars == <<ruleVars, monVars, sideVars>>

\* ------------------------------------------------------------------ bounds
MaxCalls == 5

\* ----------------------------------------------------------- Python values
None == "None"
Val == {"False", "True", "Other"}
Bool == {"False", "True"}
Raise == "raise"
CondOutcome == Val \cup {Raise}
ActOutcome == {"ok", Raise}

\* bool(v)
Truthy(v) == v \notin {"False", "None"}

EmptyDict == [k \in {} |-> None]

\* d.get(k, default)
Get(d, k, default) == IF k \in DOMAIN d THEN d[k] ELSE default

\* ------------------------------------------------------------------- Rule
\* Rule.__init__
NewRule(check_active, ignore_first_result) ==
    [check_active |-> check_active,
     ignore_first_result |-> ignore_first_result,
     last_result |-> "False"]

\* What one call of Rule.check did: the Rule afterwards, the value returned,
\* whether the condition and the action were called, whether the action raised
\* and whether an exception left check.
CheckResult(r, ret, cond_called, action_called, action_raised, propagated) ==
    [rule |-> r, ret |-> ret, cond_called |-> cond_called,
     action_called |-> action_called, action_raised |-> action_raised,
     propagated |-> propagated]

\* the guard of the early return: check_active and hero_state.get('expired', False)
Skipped(r, hero_state) ==
    r.check_active /\ Truthy(Get(hero_state, "expired", "False"))

\* mutant: the flag is negated on every evaluated call instead of being cleared
ConsumeFlag_toggle(r) == [r EXCEPT !.ignore_first_result = ~@]

\* self.ignore_first_result = False (a no-op when it is already False)
ConsumeFlag(r) == [r EXCEPT !.ignore_first_result = FALSE]

\* mutant: level-triggered, every evaluation counts as a change
Changed_always(r, result) == TRUE

\* mutant: only a change to a truthy result is recorded
Changed_rising_only(r, result) == r.last_result # result /\ Truthy(result)

\* self._last_result != result
Changed(r, result) == r.last_result # result

\* mutant: the last result is rolled back when the action raises
Evaluate_rollback(r, result, act) ==
    LET run_action == ~r.ignore_first_result
        r1 == ConsumeFlag(r)
        call == Truthy(result) /\ run_action
    IN  IF Changed(r1, result)
        THEN CheckResult(IF call /\ act = Raise THEN r1
                         ELSE [r1 EXCEPT !.last_result = result],
                         result, TRUE, call, call /\ act = Raise, FALSE)
        ELSE CheckResult(r1, None, TRUE, FALSE, FALSE, FALSE)

\* mutant: the result is returned also when it did not change
Evaluate_return_result(r, result, act) ==
    LET run_action == ~r.ignore_first_result
        r1 == ConsumeFlag(r)
        call == Truthy(result) /\ run_action
    IN  IF Changed(r1, result)
        THEN CheckResult([r1 EXCEPT !.last_result = result], result, TRUE,
                         call, call /\ act = Raise, FALSE)
        ELSE CheckResult(r1, result, TRUE, FALSE, FALSE, FALSE)

\* mutant: an exception of the action is not caught
Evaluate_uncaught(r, result, act) ==
    LET run_action == ~r.ignore_first_result
        r1 == ConsumeFlag(r)
        call == Truthy(result) /\ run_action
    IN  IF Changed(r1, result)
        THEN CheckResult([r1 EXCEPT !.last_result = result], result, TRUE,
                         call, call /\ act = Raise, call /\ act = Raise)
        ELSE CheckResult(r1, None, TRUE, FALSE, FALSE, FALSE)

\* mutant: the flag is consumed by the first rising transition, not by the first
\* evaluated call
Evaluate_first_transition(r, result, act) ==
    LET rising == Changed(r, result) /\ Truthy(result)
        run_action == ~r.ignore_first_result
        r1 == IF rising THEN ConsumeFlag(r) ELSE r
        call == rising /\ run_action
    IN  IF Changed(r, result)
        THEN CheckResult([r1 EXCEPT !.last_result = result], result, TRUE,
                         call, call /\ act = Raise, FALSE)
        ELSE CheckResult(r1, None, TRUE, FALSE, FALSE, FALSE)

\* mutant: the flag is cleared only by a call whose result differs from
\* _last_result
Evaluate_flag_on_change(r, result, act) ==
    LET run_action == ~r.ignore_first_result
        call == Truthy(result) /\ run_action
    IN  IF Changed(r, result)
        THEN CheckResult([ConsumeFlag(r) EXCEPT !.last_result = result], result,
                         TRUE, call, call /\ act = Raise, FALSE)
        ELSE CheckResult(r, None, TRUE, FALSE, FALSE, FALSE)

\* Rule.check after the condition returned `result`; `act` is what the action
\* does if it is called.
Evaluate(r, result, act) ==
    LET run_action == ~r.ignore_first_result
        r1 == ConsumeFlag(r)
        call == Truthy(result) /\ run_action
    IN  IF Changed(r1, result)
        THEN CheckResult([r1 EXCEPT !.last_result = result], result, TRUE,
                         call, call /\ act = Raise, FALSE)
        ELSE CheckResult(r1, None, TRUE, FALSE, FALSE, FALSE)

\* mutant: the flag is consumed before the condition is tried
check_flag_before_try(r, hero_state, cond, act) ==
    IF Skipped(r, hero_state)
    THEN CheckResult(r, None, FALSE, FALSE, FALSE, FALSE)
    ELSE IF cond = Raise
    THEN CheckResult(ConsumeFlag(r), None, TRUE, FALSE, FALSE, FALSE)
    ELSE Evaluate(r, cond, act)

\* mutant: a skipped call records what the condition returns and calls no action
check_skip_records(r, hero_state, cond, act) ==
    IF Skipped(r, hero_state)
    THEN CheckResult(IF cond = Raise THEN r ELSE [r EXCEPT !.last_result = cond],
                     None, FALSE, FALSE, FALSE, FALSE)
    ELSE IF cond = Raise
    THEN CheckResult(r, None, TRUE, FALSE, FALSE, FALSE)
    ELSE Evaluate(r, cond, act)

\* mutant: the inactivity test is missing
check_no_skip(r, hero_state, cond, act) ==
    IF cond = Raise
    THEN CheckResult(r, None, TRUE, FALSE, FALSE, FALSE)
    ELSE Evaluate(r, cond, act)

\* Rule.check(hero_state); `cond` is what the condition does on hero_state
\* (a value, or it raises), `act` what the action does if it is called.
check(r, hero_state, cond, act) ==
    IF Skipped(r, hero_state)
    THEN CheckResult(r, None, FALSE, FALSE, FALSE, FALSE)
    ELSE IF cond = Raise
    THEN CheckResult(r, None, TRUE, FALSE, FALSE, FALSE)
    ELSE Evaluate(r, cond, act)

\* init_status_checkers and load_hero_state, not run
NoReg == [status |-> "idle"]
NoLoad == [status |-> "idle"]
IdleSide == reg = NoReg /\ load = NoLoad

\* ---------------------------------------------------------------- Monitor
\* bounds of the exploration
NCustom == 2      \* custom rules loaded from rules.py
MaxPending == 0   \* a fetch is explored only with at most this many warnings open

\* self.state / self.prev_state when they hold None
NoneState == [none |-> None]

\* dict operations
SetKey(d, k, v) == [x \in DOMAIN d \cup {k} |-> IF x = k THEN v ELSE d[x]]
DelKey(d, k) == [x \in DOMAIN d \ {k} |-> d[x]]
Update(d, e) == [x \in DOMAIN d \cup DOMAIN e |-> IF x \in DOMAIN e THEN e[x] ELSE d[x]]

\* engine.id()
EngineId == "godvillegame"

\* what load_hero_state returns, as far as the Monitor and its rules read it:
\* `expired` absent or any value, `token_expired` absent or True
Absent == "absent"
HeroState(expired, token_expired) ==
    [k \in (IF expired = Absent THEN {} ELSE {"expired"})
           \cup (IF token_expired THEN {"token_expired"} ELSE {})
       |-> IF k = "expired" THEN expired ELSE "True"]
AllSnapshots == {HeroState(e, t) : e \in Val \cup {Absent}, t \in BOOLEAN}

\* the snapshots explored by Spec: `expired` absent or True (every reader of the
\* field takes False and a missing field alike)
Snapshots == {HeroState(e, t) : e \in {"True", Absent}, t \in BOOLEAN}

\* str(e) of a network error: the text urllib and the socket module give their
\* exceptions is never empty
ErrText == "timed out"
ErrTexts == {ErrText, "connection refused"}

\* what reading the state does: load_hero_state returns a dict; it raises
\* URLError, socket.timeout or ConnectionError ("neterr"); it raises another
\* exception ("other"); or, reading a dump file, open() raises IOError ("ioerror")
FetchOutcomes(dump_file, snapshots) ==
    {[kind |-> "ok", state |-> st] : st \in snapshots}
    \cup {[kind |-> "other", state |-> NoneState]}
    \cup (IF dump_file THEN {[kind |-> "ioerror", state |-> NoneState]}
          ELSE {[kind |-> "neterr", state |-> NoneState, text |-> t] :
                   t \in ErrTexts})

\* the warning texts
ConnectionMsg == "Connection error"
FatalMsg == "Error occured, please see the pygod.log"
TokenMsg == "Token is expired"
SessionMsg == "Session is expired. Please reconnect."
CustomMsg(i) == <<"custom", i>>

\* ghost: what the current fetch cycle, or else handle_key, has done so far;
\* the record of a fetch cycle ends when its state is rendered
NoTick == [ticked |-> FALSE, interval_elapsed |-> FALSE, hour_changed |-> FALSE]
NoCycle ==
    [tick |-> NoTick,     \* what the test of the loop iteration saw
     fetch |-> None,      \* kind of the fetch outcome, None without a fetch
     text |-> None,       \* str(e) of the network error of the fetch
     prev_fetch |-> None, \* kind of the outcome of the fetch before this one
     returned |-> NoneState,  \* what read_state returned
     checked |-> {},      \* the dicts handed to rule.check
     evaluated |-> <<>>,  \* indices of the rules whose check was called, in order
     acted |-> {},        \* indices of the rules whose action was called
     failed |-> {},       \* indices of the rules whose condition or action raised
     asked |-> <<>>,      \* the messages post_warning was called with
     posted |-> <<>>,     \* warnings posted
     notified |-> <<>>,   \* messages the notification command was run with
     ran |-> <<>>,        \* commands started
     shown |-> <<>>,      \* the states handed to main_window.update
     rendered |-> 0,      \* calls of main_window.update
     calls |-> <<>>,      \* calls of open_browser and refresh_session
     refreshed |-> 0,     \* calls of warning_windows[-1].update of the iteration
     refreshed_at |-> 0,  \* position in warning_windows of the window refreshed
     keyed |-> 0,         \* calls of handle_key of the iteration
     control |-> None]    \* the control handle_key has called

\* the calls of handle_expired_session in one run of expired snapshots are
\* counted up to this number
MaxRunActs == 2

\* ghost kept over the cycles: the state the last successful fetch loaded, the
\* kind of the outcome of the last fetch, whether the snapshot the built-in rule
\* was last evaluated on had a truthy `expired`, and the calls of the rule's
\* action in the unbroken run of such snapshots
NoHistory == [good |-> NoneState, fetch |-> None, in_run |-> FALSE, run_acts |-> 0]

\* ghost: the run of expired snapshots after the built-in rule was checked on
\* `state` with the result `res`
RunAfter(h, state, res) ==
    LET expired == Truthy(Get(state, "expired", "False"))
        n == (IF h.in_run THEN h.run_acts ELSE 0)
             + (IF res.action_called THEN 1 ELSE 0)
    IN  [h EXCEPT !.in_run = expired,
                  !.run_acts = IF ~expired THEN 0
                               ELSE IF n > MaxRunActs THEN MaxRunActs ELSE n]

\* self.main_window.update(self.state)
Rendered(m) == [m EXCEPT !.cycle.rendered = @ + 1,
                         !.cycle.shown = Append(@, m.state)]

\* Monitor.__init__ followed by init_curses: the attributes, and the rules of
\* init_status_checkers (the built-in rule, then one Rule per custom rule)
NewMonitor(args) ==
    [quiet |-> args.quiet,
     report_connection_errors |-> args.report_connection_errors,
     autorefresh |-> args.autorefresh,
     open_browser_on_start |-> args.open_browser_on_start,
     refresh_command |-> args.refresh_command,
     notify_only_when_active |-> args.notify_only_when_active,
     notify_on_start |-> args.notify_on_start,
     dump_file |-> args.dump_file,
     state |-> EmptyDict,
     prev_state |-> NoneState,
     error |-> None,
     expired_on_start |-> None,
     warning_windows |-> <<>>,
     terminal |-> "curses",
     rules |-> <<NewRule(FALSE, FALSE)>>
               \o [i \in 1..NCustom |->
                     NewRule(args.notify_only_when_active, ~args.notify_on_start)],
     cycle |-> NoCycle,
     history |-> NoHistory]

\* mutant: the notification command is run before quiet is tested
post_warning_notify_first(m, warning_message, check_active, ww) ==
    LET m0 == [m EXCEPT !.cycle.asked = Append(@, warning_message),
                        !.cycle.notified = Append(@, warning_message)]
    IN  IF m.quiet
        THEN [m |-> m0, raised |-> FALSE]
        ELSE IF check_active /\ Truthy(Get(m.state, "expired", "False"))
        THEN [m |-> m0, raised |-> FALSE]
        ELSE IF ww = Raise
        THEN [m |-> m0, raised |-> TRUE]
        ELSE [m |-> [m0 EXCEPT !.warning_windows = Append(@, warning_message),
                               !.cycle.posted = Append(@, warning_message)],
              raised |-> FALSE]

\* Monitor.post_warning with a notification command configured; `ww` is what
\* creating the WarningWindow does
post_warning(m, warning_message, check_active, ww) ==
    LET m0 == [m EXCEPT !.cycle.asked = Append(@, warning_message)]
        m1 == [m0 EXCEPT !.cycle.notified = Append(@, warning_message)]
    IN  IF m.quiet
        THEN [m |-> m0, raised |-> FALSE]
        ELSE IF check_active /\ Truthy(Get(m.state, "expired", "False"))
        THEN [m |-> m0, raised |-> FALSE]
        ELSE IF ww = Raise
        THEN [m |-> m1, raised |-> TRUE]
        ELSE [m |-> [m1 EXCEPT !.warning_windows = Append(@, warning_message),
                               !.cycle.posted = Append(@, warning_message)],
              raised |-> FALSE]

\* Monitor.run_command; `popen` is what subprocess.Popen does.  When Popen
\* raises, the except block formats the undefined name `command` and the
\* NameError leaves run_command.
run_command(m, cmd, popen) ==
    IF popen = Raise
    THEN [m |-> m, raised |-> TRUE]
    ELSE [m |-> [m EXCEPT !.cycle.ran = Append(@, cmd)], raised |-> FALSE]

\* Monitor.open_browser
open_browser(m, popen) ==
    run_command([m EXCEPT !.cycle.calls = Append(@, "open_browser")],
                "browser", popen)

\* Monitor.refresh_session
refresh_session(m, popen) ==
    LET m0 == [m EXCEPT !.cycle.calls = Append(@, "refresh_session")]
    IN  IF m.refresh_command
        THEN run_command(m0, "refresh", popen)
        ELSE [m |-> m0, raised |-> FALSE]

\* Monitor.finalize, run by the `finally` of main() when main_loop is left
finalize(m) == [m EXCEPT !.terminal = "restored"]

\* mutant: the handler warns whatever autorefresh is
handle_expired_session_always_warns(m, ext) ==
    post_warning(m, SessionMsg, FALSE, "ok")

\* mutant: expired_on_start is not cleared when it was used
handle_expired_session_no_reset(m, ext) ==
    IF m.autorefresh
    THEN IF Truthy(m.expired_on_start)
         THEN IF m.open_browser_on_start
              THEN open_browser(m, ext)
              ELSE refresh_session(m, ext)
         ELSE refresh_session(m, ext)
    ELSE post_warning(m, SessionMsg, FALSE, "ok")

\* Monitor.handle_expired_session, the action of the built-in rule
handle_expired_session(m, ext) ==
    IF m.autorefresh
    THEN IF Truthy(m.expired_on_start)
         THEN LET m1 == [m EXCEPT !.expired_on_start = "False"]
              IN  IF m.open_browser_on_start
                  THEN open_browser(m1, ext)
                  ELSE refresh_session(m1, ext)
         ELSE refresh_session(m, ext)
    ELSE post_warning(m, SessionMsg, FALSE, "ok")

\* the action of rule i: the built-in handler, or the lambda that posts the
\* message of custom rule i; `ext` is what the command or window it starts does
RuleAction(m, i, ext) ==
    IF i = 1
    THEN handle_expired_session(m, ext)
    ELSE post_warning(m, CustomMsg(i), m.notify_only_when_active, ext)

\* the condition of rule i on `info`: the built-in lambda
\* ('expired' in info and info['expired']), or what the custom rule does
RuleCondition(i, info, cond) ==
    IF i = 1 THEN Get(info, "expired", "False") ELSE cond

\* mutant: the loop steps over every second rule
NextRuleIndex_skip(m, i, res) == IF res.propagated THEN 0 ELSE i + 2

\* `for rule in self.rules`: the index of the rule to check after rule i, 0 when
\* an exception left rule.check and with it the loop
NextRuleIndex(m, i, res) == IF res.propagated THEN 0 ELSE i + 1

\* mutant: the rules see the state without its token_expired field
check_rule_stale(m, state, i, cond, ext) ==
    LET info == Update([engine |-> EngineId], DelKey(state, "token_expired"))
        c == RuleCondition(i, info, cond)
        eff == RuleAction(m, i, ext)
        res == check(m.rules[i], info, c, IF eff.raised THEN Raise ELSE "ok")
        m1 == IF res.action_called THEN eff.m ELSE m
        m2 == [m1 EXCEPT
                 !.rules[i] = res.rule,
                 !.cycle.checked = @ \cup {info},
                 !.cycle.evaluated = Append(@, i),
                 !.cycle.acted = IF res.action_called THEN @ \cup {i} ELSE @,
                 !.cycle.failed =
                     IF (res.cond_called /\ c = Raise) \/ res.action_raised
                     THEN @ \cup {i} ELSE @,
                 !.history = IF i = 1 THEN RunAfter(@, state, res) ELSE @]
    IN  [m |-> m2, next |-> NextRuleIndex(m2, i, res)]

\* mutant: the engine id overwrites a field `engine` of the snapshot
check_rule_engine_wins(m, state, i, cond, ext) ==
    LET info == Update(state, [engine |-> EngineId])
        c == RuleCondition(i, info, cond)
        eff == RuleAction(m, i, ext)
        res == check(m.rules[i], info, c, IF eff.raised THEN Raise ELSE "ok")
        m1 == IF res.action_called THEN eff.m ELSE m
        m2 == [m1 EXCEPT
                 !.rules[i] = res.rule,
                 !.cycle.checked = @ \cup {info},
                 !.cycle.evaluated = Append(@, i),
                 !.cycle.acted = IF res.action_called THEN @ \cup {i} ELSE @,
                 !.cycle.failed =
                     IF (res.cond_called /\ c = Raise) \/ res.action_raised
                     THEN @ \cup {i} ELSE @,
                 !.history = IF i = 1 THEN RunAfter(@, state, res) ELSE @]
    IN  [m |-> m2, next |-> NextRuleIndex(m2, i, res)]

\* one iteration of the loop of check_status: rule.check(state_to_check) for
\* rule i.  `cond` is what a custom condition does on the snapshot, `ext` what
\* the command or window started by the action does.
check_rule(m, state, i, cond, ext) ==
    LET info == Update([engine |-> EngineId], state)
        c == RuleCondition(i, info, cond)
        eff == RuleAction(m, i, ext)
        res == check(m.rules[i], info, c, IF eff.raised THEN Raise ELSE "ok")
        m1 == IF res.action_called THEN eff.m ELSE m
        m2 == [m1 EXCEPT
                 !.rules[i] = res.rule,
                 !.cycle.checked = @ \cup {info},
                 !.cycle.evaluated = Append(@, i),
                 !.cycle.acted = IF res.action_called THEN @ \cup {i} ELSE @,
                 !.cycle.failed =
                     IF (res.cond_called /\ c = Raise) \/ res.action_raised
                     THEN @ \cup {i} ELSE @,
                 !.history = IF i = 1 THEN RunAfter(@, state, res) ELSE @]
    IN  [m |-> m2, next |-> NextRuleIndex(m2, i, res)]

\* mutant: without a previous state the handler returns it (None) instead of
\* leaving the process
handle_read_state_exception_no_exit(m, text) ==
    LET do_notify ==
            IF m.report_connection_errors = "false" THEN FALSE
            ELSE IF m.report_connection_errors = "once" THEN m.error = None
            ELSE TRUE
        m1 == IF do_notify
              THEN post_warning(m, ConnectionMsg, FALSE, "ok").m
              ELSE m
    IN  [m |-> [m1 EXCEPT !.error = text], state |-> m.prev_state, exit |-> None]

\* mutant: the text of the error is not recorded
handle_read_state_exception_no_error(m, text) ==
    LET do_notify ==
            IF m.report_connection_errors = "false" THEN FALSE
            ELSE IF m.report_connection_errors = "once" THEN m.error = None
            ELSE TRUE
        m1 == IF do_notify
              THEN post_warning(m, ConnectionMsg, FALSE, "ok").m
              ELSE m
    IN  IF m.prev_state = NoneState
        THEN [m |-> m1, state |-> NoneState, exit |-> "1"]
        ELSE [m |-> m1, state |-> m.prev_state,
              exit |-> None]

\* mutant: the policy "once" notifies on every failure
handle_read_state_exception_once_always(m, text) ==
    LET do_notify ==
            IF m.report_connection_errors = "false" THEN FALSE
            ELSE IF m.report_connection_errors = "once" THEN TRUE
            ELSE TRUE
        m1 == IF do_notify
              THEN post_warning(m, ConnectionMsg, FALSE, "ok").m
              ELSE m
    IN  IF m.prev_state = NoneState
        THEN [m |-> m1, state |-> NoneState, exit |-> "1"]
        ELSE [m |-> [m1 EXCEPT !.error = text], state |-> m.prev_state,
              exit |-> None]

\* mutant: the policy is not consulted
handle_read_state_exception_notify_all(m, text) ==
    LET do_notify ==
            IF m.report_connection_errors = "false" THEN TRUE
            ELSE IF m.report_connection_errors = "once" THEN m.error = None
            ELSE TRUE
        m1 == IF do_notify
              THEN post_warning(m, ConnectionMsg, FALSE, "ok").m
              ELSE m
    IN  IF m.prev_state = NoneState
        THEN [m |-> m1, state |-> NoneState, exit |-> "1"]
        ELSE [m |-> [m1 EXCEPT !.error = text], state |-> m.prev_state,
              exit |-> None]

\* Monitor._handle_read_state_exception; `text` is str(e)
handle_read_state_exception(m, text) ==
    LET do_notify ==
            IF m.report_connection_errors = "false" THEN FALSE
            ELSE IF m.report_connection_errors = "once" THEN m.error = None
            ELSE TRUE
        m1 == IF do_notify
              THEN post_warning(m, ConnectionMsg, FALSE, "ok").m
              ELSE m
    IN  IF m.prev_state = NoneState
        THEN [m |-> m1, state |-> NoneState, exit |-> "1"]
        ELSE [m |-> [m1 EXCEPT !.error = text], state |-> m.prev_state,
              exit |-> None]

\* mutant: a successful fetch does not clear self.error
read_state_keep_error(m, outcome) ==
    LET m0 == [m EXCEPT !.cycle.fetch = outcome.kind,
                        !.cycle.text =
                            IF outcome.kind = "neterr" THEN outcome.text ELSE None,
                        !.cycle.prev_fetch = m.history.fetch,
                        !.history.fetch = outcome.kind,
                        !.history.good =
                            IF outcome.kind = "ok" THEN outcome.state ELSE @]
        got ==
            CASE outcome.kind = "ok" ->
                   [m |-> m0, state |-> outcome.state,
                    exit |-> None]
              [] outcome.kind = "ioerror" ->
                   [m |-> [m0 EXCEPT !.error = None], state |-> NoneState,
                    exit |-> None]
              [] outcome.kind = "neterr" ->
                   handle_read_state_exception(m0, outcome.text)
              [] OTHER ->
                   [m |-> post_warning(m0, FatalMsg, FALSE, "ok").m,
                    state |-> NoneState, exit |-> "1"]
    IN  IF got.exit # None
        THEN got
        ELSE LET state == got.state
                 aliased == outcome.kind = "neterr"
                 \* `if state and ...`: a loaded state is never an empty dict
                 m1 == IF state # NoneState /\ "token_expired" \in DOMAIN state
                       THEN post_warning(got.m, TokenMsg, FALSE, "ok").m
                       ELSE got.m
                 old == IF m1.error # None
                        THEN SetKey(m1.state, "error", m1.error)
                        ELSE DelKey(m1.state, "error")
                 ret == IF aliased THEN old ELSE state
             IN  [m |-> [m1 EXCEPT !.prev_state = ret, !.state = old,
                                   !.cycle.returned = ret],
                  state |-> ret, exit |-> None]

\* mutant: every exception is handled like a network error
read_state_other_recovers(m, outcome) ==
    LET m0 == [m EXCEPT !.cycle.fetch = outcome.kind,
                        !.cycle.text =
                            IF outcome.kind = "neterr" THEN outcome.text ELSE None,
                        !.cycle.prev_fetch = m.history.fetch,
                        !.history.fetch = outcome.kind,
                        !.history.good =
                            IF outcome.kind = "ok" THEN outcome.state ELSE @]
        got ==
            CASE outcome.kind = "ok" ->
                   [m |-> [m0 EXCEPT !.error = None], state |-> outcome.state,
                    exit |-> None]
              [] outcome.kind = "ioerror" ->
                   [m |-> [m0 EXCEPT !.error = None], state |-> NoneState,
                    exit |-> None]
              [] outcome.kind = "neterr" ->
                   handle_read_state_exception(m0, outcome.text)
              [] OTHER ->
                   handle_read_state_exception(m0, ErrText)
    IN  IF got.exit # None
        THEN got
        ELSE LET state == got.state
                 aliased == outcome.kind = "neterr"
                 \* `if state and ...`: a loaded state is never an empty dict
                 m1 == IF state # NoneState /\ "token_expired" \in DOMAIN state
                       THEN post_warning(got.m, TokenMsg, FALSE, "ok").m
                       ELSE got.m
                 old == IF m1.error # None
                        THEN SetKey(m1.state, "error", m1.error)
                        ELSE DelKey(m1.state, "error")
                 ret == IF aliased THEN old ELSE state
             IN  [m |-> [m1 EXCEPT !.prev_state = ret, !.state = old,
                                   !.cycle.returned = ret],
                  state |-> ret, exit |-> None]

\* mutant: the token warning is posted for a fetched state only
read_state_token_fresh_only(m, outcome) ==
    LET m0 == [m EXCEPT !.cycle.fetch = outcome.kind,
                        !.cycle.text =
                            IF outcome.kind = "neterr" THEN outcome.text ELSE None,
                        !.cycle.prev_fetch = m.history.fetch,
                        !.history.fetch = outcome.kind,
                        !.history.good =
                            IF outcome.kind = "ok" THEN outcome.state ELSE @]
        got ==
            CASE outcome.kind = "ok" ->
                   [m |-> [m0 EXCEPT !.error = None], state |-> outcome.state,
                    exit |-> None]
              [] outcome.kind = "ioerror" ->
                   [m |-> [m0 EXCEPT !.error = None], state |-> NoneState,
                    exit |-> None]
              [] outcome.kind = "neterr" ->
                   handle_read_state_exception(m0, outcome.text)
              [] OTHER ->
                   [m |-> post_warning(m0, FatalMsg, FALSE, "ok").m,
                    state |-> NoneState, exit |-> "1"]
    IN  IF got.exit # None
        THEN got
        ELSE LET state == got.state
                 aliased == outcome.kind = "neterr"
                 \* `if state and ...`: a loaded state is never an empty dict
                 m1 == IF outcome.kind = "ok" /\ "token_expired" \in DOMAIN state
                       THEN post_warning(got.m, TokenMsg, FALSE, "ok").m
                       ELSE got.m
                 old == IF m1.error # None
                        THEN SetKey(m1.state, "error", m1.error)
                        ELSE DelKey(m1.state, "error")
                 ret == IF aliased THEN old ELSE state
             IN  [m |-> [m1 EXCEPT !.prev_state = ret, !.state = old,
                                   !.cycle.returned = ret],
                  state |-> ret, exit |-> None]

\* mutant: the state kept after a failed fetch is marked expired
read_state_fallback_expired(m, outcome) ==
    LET m0 == [m EXCEPT !.cycle.fetch = outcome.kind,
                        !.cycle.text =
                            IF outcome.kind = "neterr" THEN outcome.text ELSE None,
                        !.cycle.prev_fetch = m.history.fetch,
                        !.history.fetch = outcome.kind,
                        !.history.good =
                            IF outcome.kind = "ok" THEN outcome.state ELSE @]
        got ==
            CASE outcome.kind = "ok" ->
                   [m |-> [m0 EXCEPT !.error = None], state |-> outcome.state,
                    exit |-> None]
              [] outcome.kind = "ioerror" ->
                   [m |-> [m0 EXCEPT !.error = None], state |-> NoneState,
                    exit |-> None]
              [] outcome.kind = "neterr" ->
                   handle_read_state_exception(m0, outcome.text)
              [] OTHER ->
                   [m |-> post_warning(m0, FatalMsg, FALSE, "ok").m,
                    state |-> NoneState, exit |-> "1"]
    IN  IF got.exit # None
        THEN got
        ELSE LET state == got.state
                 aliased == outcome.kind = "neterr"
                 \* `if state and ...`: a loaded state is never an empty dict
                 m1 == IF state # NoneState /\ "token_expired" \in DOMAIN state
                       THEN post_warning(got.m, TokenMsg, FALSE, "ok").m
                       ELSE got.m
                 old == IF m1.error # None
                        THEN SetKey(SetKey(m1.state, "expired", "True"),
                                    "error", m1.error)
                        ELSE DelKey(m1.state, "error")
                 ret == IF aliased THEN old ELSE state
             IN  [m |-> [m1 EXCEPT !.prev_state = ret, !.state = old,
                                   !.cycle.returned = ret],
                  state |-> ret, exit |-> None]

\* Monitor.read_state.  self.state still is the object of the previous cycle
\* while read_state runs, and it is the object prev_state refers to whenever
\* prev_state is not None: a write to self.state['error'] is seen in the state
\* returned by the fallback, and is lost when a new state was fetched.
read_state(m, outcome) ==
    LET m0 == [m EXCEPT !.cycle.fetch = outcome.kind,
                        !.cycle.text =
                            IF outcome.kind = "neterr" THEN outcome.text ELSE None,
                        !.cycle.prev_fetch = m.history.fetch,
                        !.history.fetch = outcome.kind,
                        !.history.good =
                            IF outcome.kind = "ok" THEN outcome.state ELSE @]
        got ==
            CASE outcome.kind = "ok" ->
                   [m |-> [m0 EXCEPT !.error = None], state |-> outcome.state,
                    exit |-> None]
              [] outcome.kind = "ioerror" ->
                   [m |-> [m0 EXCEPT !.error = None], state |-> NoneState,
                    exit |-> None]
              [] outcome.kind = "neterr" ->
                   handle_read_state_exception(m0, outcome.text)
              [] OTHER ->
                   [m |-> post_warning(m0, FatalMsg, FALSE, "ok").m,
                    state |-> NoneState, exit |-> "1"]
    IN  IF got.exit # None
        THEN got
        ELSE LET state == got.state
                 aliased == outcome.kind = "neterr"
                 \* `if state and ...`: a loaded state is never an empty dict
                 m1 == IF state # NoneState /\ "token_expired" \in DOMAIN state
                       THEN post_warning(got.m, TokenMsg, FALSE, "ok").m
                       ELSE got.m
                 old == IF m1.error # None
                        THEN SetKey(m1.state, "error", m1.error)
                        ELSE DelKey(m1.state, "error")
                 ret == IF aliased THEN old ELSE state
             IN  [m |-> [m1 EXCEPT !.prev_state = ret, !.state = old,
                                   !.cycle.returned = ret],
                  state |-> ret, exit |-> None]

\* what a custom condition may do on a snapshot
CustomOutcomes == {"False", "True", Raise}

\* the wall-clock hours the loop may observe
Hours == {0, 1}

\* what getkey and a command started by the key's handler may do
\* ("none": curses.error 'no input'; "x": a key without a control)
KeyInputs ==
    {<<k, "ok">> : k \in {"none", "q", "f", "F", " ", "x"}}
    \cup {<<k, Raise>> : k \in {"f", "F"}}

\* mutant: the oldest warning is removed
remove_warning_oldest(m) ==
    Rendered([m EXCEPT !.warning_windows =
                 IF Len(@) # 0 THEN SubSeq(@, 2, Len(@)) ELSE @])

\* Monitor.remove_warning
remove_warning(m) ==
    Rendered([m EXCEPT !.warning_windows =
                 IF Len(@) # 0 THEN SubSeq(@, 1, Len(@) - 1) ELSE @])

\* mutant: quit is deferred to the next iteration
handle_key_quit_later(m, key, popen) ==
    LET m0 == [m EXCEPT !.cycle.keyed = @ + 1,
                        !.cycle.control =
                            IF key \in {"q", "f", "F", " "} THEN key ELSE @]
    IN  CASE key = "q" -> [m |-> m0, pc |-> "tick", exit_status |-> None]
          [] key = "f" ->
               LET r == open_browser(m0, popen)
               IN  [m |-> r.m, pc |-> IF r.raised THEN "crashed" ELSE "tick",
                    exit_status |-> IF r.raised THEN "1" ELSE None]
          [] key = "F" ->
               LET r == refresh_session(m0, popen)
               IN  [m |-> r.m, pc |-> IF r.raised THEN "crashed" ELSE "tick",
                    exit_status |-> IF r.raised THEN "1" ELSE None]
          [] key = " " ->
               [m |-> remove_warning(m0), pc |-> "tick", exit_status |-> None]
          [] OTHER -> [m |-> m0, pc |-> "tick", exit_status |-> None]

\* Monitor.handle_key with the controls of init_keys: where the process is
\* afterwards ("tick": back in the loop)
handle_key(m, key, popen) ==
    LET m0 == [m EXCEPT !.cycle.keyed = @ + 1,
                        !.cycle.control =
                            IF key \in {"q", "f", "F", " "} THEN key ELSE @]
    IN  CASE key = "q" -> [m |-> m0, pc |-> "exit", exit_status |-> "0"]
          [] key = "f" ->
               LET r == open_browser(m0, popen)
               IN  [m |-> r.m, pc |-> IF r.raised THEN "crashed" ELSE "tick",
                    exit_status |-> IF r.raised THEN "1" ELSE None]
          [] key = "F" ->
               LET r == refresh_session(m0, popen)
               IN  [m |-> r.m, pc |-> IF r.raised THEN "crashed" ELSE "tick",
                    exit_status |-> IF r.raised THEN "1" ELSE None]
          [] key = " " ->
               [m |-> remove_warning(m0), pc |-> "tick", exit_status |-> None]
          [] OTHER -> [m |-> m0, pc |-> "tick", exit_status |-> None]

\* mutant: only the interval makes a fetch due
Due_interval_only(interval_elapsed, hour, old_hour) == interval_elapsed

\* mutant: every tick fetches
Due_always(interval_elapsed, hour, old_hour) == TRUE

\* the test of main_loop for a fetch in this tick
Due(interval_elapsed, hour, old_hour) == interval_elapsed \/ hour # old_hour

\* the settings main() reads from the command line and the config files
AllArgs ==
    [quiet : BOOLEAN,
     report_connection_errors : {"true", "once", "false"},
     autorefresh : BOOLEAN,
     open_browser_on_start : BOOLEAN,
     refresh_command : BOOLEAN,
     notify_only_when_active : BOOLEAN,
     notify_on_start : BOOLEAN,
     dump_file : BOOLEAN]

\* the settings explored by Spec: a live fetch, a refresh command, and custom
\* rules that hold both of their flags; every reporting policy without
\* autorefresh, and autorefresh with the default policy
Args ==
    {a \in AllArgs :
        /\ a.open_browser_on_start /\ a.refresh_command
        /\ a.notify_only_when_active /\ ~a.notify_on_start
        /\ ~a.dump_file
        /\ a.autorefresh => a.report_connection_errors = "true"}

\* ------------------------------------------- SpecRule: one Rule, any calls
\* the snapshots a check call may see, as far as a Rule reads them
HeroStates == {EmptyDict} \cup {[expired |-> v] : v \in Val}

NoCall == [n |-> 0]

InitRule ==
    /\ \E ca \in BOOLEAN, ifr \in BOOLEAN :
          /\ rule = NewRule(ca, ifr)
          /\ created = NewRule(ca, ifr)
    /\ ncalls = 0
    /\ last_call = NoCall
    /\ observed = "False"
    /\ evals = 0
    /\ rises = 0
    /\ flag_changes = 0
    /\ clean = TRUE
    /\ all_bool = TRUE
    /\ acted_in_run = 0
    /\ mon = NewMonitor(CHOOSE args \in Args : TRUE)
    /\ pc = "read"
    /\ first = TRUE
    /\ ri = 0
    /\ exit_status = None
    /\ prev_hour = 0
    /\ IdleSide

\* one call rule.check(hero_state)
Check(hero_state, cond, act) ==
    LET res == check(rule, hero_state, cond, act)
        evaluated == res.cond_called /\ cond # Raise
        rising == evaluated /\ Truthy(cond) /\ ~Truthy(observed)
        same_run == evaluated /\ last_call.n > 0 /\ last_call.evaluated
                    /\ last_call.cond = cond
    IN  /\ ncalls < MaxCalls
        /\ rule' = res.rule
        /\ ncalls' = ncalls + 1
        /\ last_call' =
              [n |-> ncalls + 1,
               expired |-> Get(hero_state, "expired", None),
               cond |-> IF res.cond_called THEN cond ELSE None,
               before |-> rule,
               ret |-> res.ret,
               cond_called |-> res.cond_called,
               evaluated |-> evaluated,
               rising |-> rising,
               action_called |-> res.action_called,
               action_raised |-> res.action_raised,
               propagated |-> res.propagated,
               prev_cond |-> IF last_call.n = 0 THEN "False" ELSE last_call.cond,
               prev_action_raised |-> last_call.n > 0 /\ last_call.action_raised]
        /\ observed' = IF evaluated THEN cond ELSE observed
        /\ evals' = IF evaluated THEN evals + 1 ELSE evals
        /\ rises' = IF rising THEN rises + 1 ELSE rises
        /\ flag_changes' =
              IF res.rule.ignore_first_result # rule.ignore_first_result
              THEN flag_changes + 1 ELSE flag_changes
        /\ clean' = (clean /\ evaluated)
        /\ all_bool' = (all_bool /\ (evaluated => cond \in Bool))
        /\ acted_in_run' =
              (IF same_run THEN acted_in_run ELSE 0)
              + (IF res.action_called THEN 1 ELSE 0)
        /\ UNCHANGED <<created, monVars, sideVars>>

NextRule ==
    \E hero_state \in HeroStates, cond \in CondOutcome, act \in ActOutcome :
        Check(hero_state, cond, act)

SpecRule == InitRule /\ [][NextRule]_vars

\* ----------------------------------------------------- the Rule, not used
IdleRule ==
    /\ rule = NewRule(FALSE, FALSE)
    /\ created = NewRule(FALSE, FALSE)
    /\ ncalls = 0
    /\ last_call = NoCall
    /\ observed = "False"
    /\ evals = 0
    /\ rises = 0
    /\ flag_changes = 0
    /\ clean = TRUE
    /\ all_bool = TRUE
    /\ acted_in_run = 0

\* --------------------------------------------------- Spec: the Monitor
\* mutant: main_loop enters the loop before the first fetch
Init_in_loop ==
    /\ IdleRule
    /\ \E args \in Args : mon = NewMonitor(args)
    /\ pc = "tick"
    /\ first = TRUE
    /\ ri = 0
    /\ exit_status = None
    /\ prev_hour = 0
    /\ IdleSide

\* main() has built the Monitor and main_loop is about to fetch the first state
Init ==
    /\ IdleRule
    /\ \E args \in Args : mon = NewMonitor(args)
    /\ pc = "read"
    /\ first = TRUE
    /\ ri = 0
    /\ exit_status = None
    /\ prev_hour = 0
    /\ IdleSide

\* self.state = self.read_state(), and in the cycle before the loop
\* self.expired_on_start = 'expired' in self.state and self.state['expired'].
\* With None for a state the process ends in a TypeError: in that test, or in
\* check_status at state_to_check.update(state).
Fetched(snapshots) ==
    /\ \E outcome \in FetchOutcomes(mon.dump_file, snapshots) :
          LET rs == read_state([mon EXCEPT !.cycle.tick =
                                     [NoTick EXCEPT !.ticked = mon.cycle.tick.ticked]],
                               outcome)
              m1 == [rs.m EXCEPT !.state = rs.state]
          IN  IF rs.exit # None
              THEN /\ mon' = finalize(rs.m)
                   /\ pc' = "exit"
                   /\ exit_status' = rs.exit
                   /\ ri' = ri
              ELSE IF rs.state = NoneState
              THEN /\ mon' = finalize(m1)
                   /\ pc' = "crashed"
                   /\ exit_status' = "1"
                   /\ ri' = ri
              ELSE /\ mon' = IF first
                             THEN [m1 EXCEPT !.expired_on_start =
                                      Get(rs.state, "expired", "False")]
                             ELSE m1
                   /\ pc' = "check"
                   /\ ri' = 1
                   /\ exit_status' = exit_status
    /\ UNCHANGED <<ruleVars, first, prev_hour>>

\* the fetch cycle begins: read_state is called and returns
ReadState(snapshots) ==
    /\ pc = "read"
    /\ Fetched(snapshots)
    /\ UNCHANGED sideVars

\* check_status: rule.check for the next rule of self.rules
CheckRule(conds) ==
    /\ pc = "check"
    /\ \E cond \in conds, ext \in ActOutcome :
          LET r == check_rule([mon EXCEPT !.cycle.prev_fetch = None],
                              mon.state, ri, cond, ext)
          IN  /\ mon' = IF r.next = 0 THEN finalize(r.m) ELSE r.m
              /\ IF r.next = 0
                 THEN pc' = "crashed" /\ exit_status' = "1" /\ ri' = ri
                 ELSE /\ ri' = r.next
                      /\ pc' = IF r.next > Len(mon.rules) THEN "render" ELSE "check"
                      /\ exit_status' = exit_status
    /\ UNCHANGED <<ruleVars, sideVars, first, prev_hour>>

\* mutant: a fetch cycle ends the iteration
Render_skip_key ==
    /\ pc = "render"
    /\ mon' = Rendered([mon EXCEPT !.cycle =
                            [NoCycle EXCEPT !.tick = mon.cycle.tick,
                                            !.fetch = mon.cycle.fetch,
                                            !.text = mon.cycle.text,
                                            !.returned = mon.cycle.returned,
                                            !.checked = mon.cycle.checked,
                                            !.evaluated = mon.cycle.evaluated]])
    /\ IF first
       THEN /\ \E hour \in Hours : prev_hour' = hour
            /\ pc' = "tick"
       ELSE /\ prev_hour' = prev_hour
            /\ pc' = "tick"
    /\ first' = FALSE
    /\ UNCHANGED <<ruleVars, sideVars, ri, exit_status>>

\* self.main_window.update(self.state); after the first cycle main_loop reads
\* prev_hour and enters the loop
Render ==
    /\ pc = "render"
    /\ mon' = Rendered([mon EXCEPT !.cycle =
                            [NoCycle EXCEPT !.tick = mon.cycle.tick,
                                            !.fetch = mon.cycle.fetch,
                                            !.text = mon.cycle.text,
                                            !.returned = mon.cycle.returned,
                                            !.checked = mon.cycle.checked,
                                            !.evaluated = mon.cycle.evaluated]])
    /\ IF first
       THEN /\ \E hour \in Hours : prev_hour' = hour
            /\ pc' = "tick"
       ELSE /\ prev_hour' = prev_hour
            /\ pc' = "key"
    /\ first' = FALSE
    /\ UNCHANGED <<ruleVars, sideVars, ri, exit_status>>

\* the top of a loop iteration: new_hour is read and a fetch is due or not.
\* Nothing reads prev_hour before `prev_hour = new_hour` after the fetch cycle,
\* so the assignment is made here.  A fetch is explored only when the user has
\* dismissed all but MaxPending warnings.
Tick ==
    /\ pc = "tick"
    /\ \E interval_elapsed \in BOOLEAN, new_hour \in Hours :
          /\ Due(interval_elapsed, new_hour, prev_hour) =>
                Len(mon.warning_windows) <= MaxPending
          /\ prev_hour' = new_hour
          /\ pc' = IF Due(interval_elapsed, new_hour, prev_hour)
                   THEN "read" ELSE "key"
          /\ mon' = [mon EXCEPT !.cycle =
                        [NoCycle EXCEPT !.tick =
                            [ticked |-> TRUE,
                             interval_elapsed |-> interval_elapsed,
                             hour_changed |-> new_hour # prev_hour]]]
    /\ UNCHANGED <<ruleVars, sideVars, first, ri, exit_status>>

\* the rest of the iteration: the topmost warning is refreshed, handle_key, sleep
HandleKey ==
    /\ pc = "key"
    /\ \E ki \in KeyInputs :
          LET refresh == IF Len(mon.warning_windows) # 0 THEN 1 ELSE 0
              e == handle_key([mon EXCEPT !.cycle =
                                  [NoCycle EXCEPT
                                      !.refreshed = refresh,
                                      !.refreshed_at =
                                          IF refresh = 1
                                          THEN Len(mon.warning_windows)
                                          ELSE 0]],
                              ki[1], ki[2])
          IN  /\ mon' = IF e.pc = "tick" THEN e.m ELSE finalize(e.m)
              /\ pc' = e.pc
              /\ exit_status' = e.exit_status
    /\ UNCHANGED <<ruleVars, sideVars, first, ri, prev_hour>>

Next ==
    \/ ReadState(Snapshots)
    \/ CheckRule(CustomOutcomes)
    \/ Render
    \/ Tick
    \/ HandleKey

Spec == Init /\ [][Next]_vars

\* ------------------------------- SpecDump: the Monitor reading a dump file
\* the settings explored by SpecDump: --state is given
ArgsDump ==
    {a \in AllArgs :
        /\ a.dump_file
        /\ ~a.quiet /\ a.report_connection_errors = "true" /\ ~a.autorefresh
        /\ a.open_browser_on_start /\ a.refresh_command
        /\ a.notify_only_when_active /\ ~a.notify_on_start}

InitDump ==
    /\ IdleRule
    /\ IdleSide
    /\ \E args \in ArgsDump : mon = NewMonitor(args)
    /\ pc = "read"
    /\ first = TRUE
    /\ ri = 0
    /\ exit_status = None
    /\ prev_hour = 0

SpecDump == InitDump /\ [][Next]_vars

\* ------------- SpecFetch: the Monitor, with the time a fetch takes made visible
\* the settings explored by SpecFetch
ArgsFetch ==
    {a \in Args : ~a.quiet /\ a.report_connection_errors = "true"}

InitFetch ==
    /\ IdleRule
    /\ IdleSide
    /\ \E args \in ArgsFetch : mon = NewMonitor(args)
    /\ pc = "read"
    /\ first = TRUE
    /\ ri = 0
    /\ exit_status = None
    /\ prev_hour = 0

\* ghost: the number of calls of load_hero_state that have not returned
InFlight(l) == IF l.status = "fetching" THEN l.inflight ELSE 0
Started(l) == [status |-> "fetching", inflight |-> InFlight(l) + 1]
Ended(l) ==
    IF InFlight(l) <= 1 THEN NoLoad
    ELSE [status |-> "fetching", inflight |-> InFlight(l) - 1]

\* mutant: the request is sent and the loop goes on without its answer
BeginFetch_async ==
    /\ pc = "read"
    /\ load' = Started(load)
    /\ pc' = "key"
    /\ UNCHANGED <<ruleVars, reg, mon, first, ri, exit_status, prev_hour>>

\* read_state calls load_hero_state, which sends the request and waits in
\* urlopen or read for the answer
BeginFetch ==
    /\ pc = "read"
    /\ load' = Started(load)
    /\ pc' = "fetching"
    /\ UNCHANGED <<ruleVars, reg, mon, first, ri, exit_status, prev_hour>>

\* the answer or the exception arrives and read_state goes on to its end
EndFetch ==
    /\ pc = "fetching"
    /\ load' = Ended(load)
    /\ Fetched(Snapshots)
    /\ reg' = reg

NextFetch ==
    \/ BeginFetch
    \/ EndFetch
    \/ CheckRule(CustomOutcomes)
    \/ Render
    \/ Tick
    \/ HandleKey

SpecFetch == InitFetch /\ [][NextFetch]_vars

\* ------------- SpecExpiry: the Monitor on snapshots with any `expired` value
\* the settings explored by SpecExpiry: the handler of the built-in rule warns
ArgsExpiry ==
    {a \in Args : ~a.quiet /\ a.report_connection_errors = "true"
                  /\ ~a.autorefresh}

InitExpiry ==
    /\ IdleRule
    /\ IdleSide
    /\ \E args \in ArgsExpiry : mon = NewMonitor(args)
    /\ pc = "read"
    /\ first = TRUE
    /\ ri = 0
    /\ exit_status = None
    /\ prev_hour = 0

NextExpiry ==
    \/ ReadState(AllSnapshots)
    \/ CheckRule(CustomOutcomes)
    \/ Render
    \/ Tick
    \/ HandleKey

SpecExpiry == InitExpiry /\ [][NextExpiry]_vars

\* ------------- SpecEngine: the Monitor on snapshots with a field `engine`
\* the snapshots explored by SpecEngine: those of Spec, without and with a
\* field `engine` that is not the engine id
OtherEngine == "thetale"
EngineSnapshots ==
    Snapshots \cup {SetKey(st, "engine", OtherEngine) : st \in Snapshots}

NextEngine ==
    \/ ReadState(EngineSnapshots)
    \/ CheckRule(CustomOutcomes)
    \/ Render
    \/ Tick
    \/ HandleKey

SpecEngine == InitExpiry /\ [][NextEngine]_vars

\* ------------------------------------- SpecQuiet: the Monitor with --quiet
\* the settings explored by SpecQuiet: those of Spec with quiet set
ArgsQuiet == {a \in Args : a.quiet}

InitQuiet ==
    /\ IdleRule
    /\ IdleSide
    /\ \E args \in ArgsQuiet : mon = NewMonitor(args)
    /\ pc = "read"
    /\ first = TRUE
    /\ ri = 0
    /\ exit_status = None
    /\ prev_hour = 0

SpecQuiet == InitQuiet /\ [][Next]_vars

\* the Monitor, not run
IdleMonitor ==
    /\ mon = NewMonitor(CHOOSE args \in Args : TRUE)
    /\ pc = "read"
    /\ first = TRUE
    /\ ri = 0
    /\ exit_status = None
    /\ prev_hour = 0

\* ------------------------------------ SpecInit: init_status_checkers
\* bounds of the exploration
MaxCustomRules == 3   \* functions found in rules.py
MaxFirings == 2       \* calls of rule actions after the registration

\* the message texts custom rules return
Texts == {"low health", "in town"}

\* what the call custom_rule(None) of init_status_checkers does: it returns a
\* string, a callable or another object, or it raises
LoadTimeResults ==
    {[type |-> "str", text |-> t] : t \in Texts}
    \cup {[type |-> ty, text |-> None] : ty \in {"callable", "other", "raise"}}

RulesFiles == UNION {[1..n -> LoadTimeResults] : n \in 0..MaxCustomRules}

\* isinstance(action, str) or isinstance(action, unicode): the module is
\* Python 3 code and binds no name `unicode`, so the operand after `or` raises
\* NameError whenever it is evaluated, that is when action is no str
IsMessage(action) == IF action.type = "str" THEN "True" ELSE Raise

\* lambda action=action, args=self: self.post_warning(action, ...): the default
\* argument holds the value `action` has when the lambda is made
BindAction(action) == [type |-> "lambda", text |-> action.text]

\* mutant: what the lambda posts is read from the loop variable when it is called
PostedBy_late(r, loop_action) == loop_action.text

\* the text the action of the registered rule r posts when it is called;
\* loop_action is what the variable `action` of the loop holds by then
PostedBy(r, loop_action) == r.action.text

\* one iteration of `for custom_rule in CUSTOM_RULES`
register_custom(r) ==
    LET action == r.customs[r.i]
    IN  IF action.type = "raise"
        THEN [r EXCEPT !.status = "crashed", !.error = "load"]
        ELSE IF IsMessage(action) = Raise
        THEN [r EXCEPT !.status = "crashed", !.error = "NameError",
                       !.action = action]
        ELSE LET bound == BindAction(action)
             IN  [r EXCEPT !.action = bound,
                           !.rules = Append(@, [custom |-> r.i, action |-> bound]),
                           !.i = @ + 1,
                           !.status = IF r.i = Len(r.customs)
                                      THEN "done" ELSE "running"]

\* init_curses calls init_status_checkers with the functions of rules.py
InitReg ==
    /\ IdleRule
    /\ IdleMonitor
    /\ load = NoLoad
    /\ \E customs \in RulesFiles :
          reg = [status |-> "start", customs |-> customs, i |-> 0,
                 action |-> [type |-> "unbound", text |-> None],
                 rules |-> <<>>, error |-> None, fired |-> <<>>]

\* self.rules.append(Rule(<built-in condition>, self.handle_expired_session))
RegisterBuiltin ==
    /\ reg.status = "start"
    /\ reg' = [reg EXCEPT
                 !.rules = <<[custom |-> 0,
                              action |-> [type |-> "handle_expired_session",
                                          text |-> None]]>>,
                 !.i = 1,
                 !.status = IF Len(reg.customs) = 0 THEN "done" ELSE "running"]
    /\ UNCHANGED <<ruleVars, monVars, load>>

RegisterCustom ==
    /\ reg.status = "running"
    /\ reg' = register_custom(reg)
    /\ UNCHANGED <<ruleVars, monVars, load>>

\* later, Rule.check calls the action of the custom rule k
FireRule(k) ==
    /\ reg.status = "done"
    /\ k \in 2..Len(reg.rules)
    /\ Len(reg.fired) < MaxFirings
    /\ reg' = [reg EXCEPT !.fired =
                 Append(@, [rule |-> k,
                            text |-> PostedBy(reg.rules[k], reg.action)])]
    /\ UNCHANGED <<ruleVars, monVars, load>>

NextInit ==
    \/ RegisterBuiltin
    \/ RegisterCustom
    \/ \E k \in 2..(MaxCustomRules + 1) : FireRule(k)

SpecInit == InitReg /\ [][NextInit]_vars

\* ------------------------------ SpecLoad: load_hero_state and the engines
KNOWN_ENGINES == {"godvillenet", "godvillegame", "thetale"}

\* whether the engine's fetch_state has a parameter named custom_url
AcceptsCustomUrl(engine) ==
    CASE engine = "godvillenet" -> FALSE
      [] engine = "godvillegame" -> TRUE
      [] engine = "thetale" -> TRUE

\* JSON text and text that is not JSON; json.dumps and json.loads
json_dumps(d) == [json |-> d]
NotJson == [html |-> "<html>"]
IsJson(text) == "json" \in DOMAIN text
json_loads(text) == text.json

\* the keys and values of default_state explored
default_state ==
    [k \in {"max_health", "health", "level", "quest", "motto"} |->
        CASE k \in {"max_health", "health", "level"} -> "1"
          [] k = "quest" -> "Generate secret token"
          [] k = "motto" -> ""]

\* the states a source can hold: each of health, level and name absent or
\* present, token_expired absent, false or true
SourceValue == "source"
SourceStates ==
    {[k \in ks \cup (IF te = Absent THEN {} ELSE {"token_expired"}) |->
         IF k = "token_expired" THEN te ELSE SourceValue] :
       ks \in SUBSET {"health", "level", "name"}, te \in Bool \cup {Absent}}

\* what the source does when it is read: a dump file holds text or cannot be
\* opened; the Godville servers answer with text or the connection fails; the
\* API of The Tale gives a state, asks for authorisation, reports an error of
\* the server or fails to connect
Answers(engine, filename) ==
    IF filename
    THEN {[kind |-> "text", text |-> json_dumps(d)] : d \in SourceStates}
         \cup {[kind |-> "text", text |-> NotJson], [kind |-> "ioerror"]}
    ELSE IF engine = "thetale"
    THEN {[kind |-> "state", state |-> d] : d \in SourceStates}
         \cup {[kind |-> "auth"], [kind |-> "apierror"], [kind |-> "neterr"]}
    ELSE {[kind |-> "text", text |-> json_dumps(d)] : d \in SourceStates}
         \cup {[kind |-> "text", text |-> NotJson], [kind |-> "neterr"]}

\* engine.fetch_state(godname, token, custom_url=custom_url)
fetch_state(engine, answer) ==
    IF ~AcceptsCustomUrl(engine)
    THEN [kind |-> Raise, error |-> "TypeError"]
    ELSE CASE answer.kind = "neterr" -> [kind |-> Raise, error |-> "neterr"]
           [] answer.kind = "apierror" -> [kind |-> Raise, error |-> "apierror"]
           [] answer.kind = "auth" ->
                [kind |-> "text",
                 text |-> json_dumps([token_expired |-> "True"])]
           [] answer.kind = "state" ->
                [kind |-> "text", text |-> json_dumps(answer.state)]
           [] answer.kind = "text" -> [kind |-> "text", text |-> answer.text]

\* load_hero_state, reading the source
read_source(engine, filename, answer) ==
    IF filename
    THEN IF answer.kind = "ioerror"
         THEN [kind |-> Raise, error |-> "ioerror"]
         ELSE [kind |-> "text", text |-> answer.text]
    ELSE fetch_state(engine, answer)

\* load_hero_state_defaults_win: the placeholders overwrite the source's fields
load_hero_state_defaults_win(text, token) ==
    IF ~IsJson(text)
    THEN [kind |-> Raise, error |-> "ValueError"]
    ELSE LET state == json_loads(text)
             marked == IF token THEN SetKey(state, "token_expired", "True")
                       ELSE state
         IN  IF "health" \notin DOMAIN state
             THEN [kind |-> "ok", parsed |-> state,
                   state |-> Update(marked, default_state)]
             ELSE [kind |-> "ok", parsed |-> state, state |-> state]

\* load_hero_state, from json.loads on
load_hero_state(text, token) ==
    IF ~IsJson(text)
    THEN [kind |-> Raise, error |-> "ValueError"]
    ELSE LET state == json_loads(text)
             marked == IF token THEN SetKey(state, "token_expired", "True")
                       ELSE state
         IN  IF "health" \notin DOMAIN state
             THEN [kind |-> "ok", parsed |-> state,
                   state |-> Update(default_state, marked)]
             ELSE [kind |-> "ok", parsed |-> state, state |-> state]

\* what the caller of load_hero_state does with an exception: read_state hands
\* network errors to _handle_read_state_exception and ends the process on any
\* other exception; read_dump turns IOError into None
caller(error) ==
    CASE error = "neterr" -> "handler"
      [] error = "ioerror" -> "none"
      [] error \in {"TypeError", "ValueError", "apierror"} -> "exit"

InitLoad ==
    /\ IdleRule
    /\ IdleMonitor
    /\ reg = NoReg
    /\ \E engine \in KNOWN_ENGINES, token \in BOOLEAN, filename \in BOOLEAN,
          custom_url \in BOOLEAN :
          \E answer \in Answers(engine, filename) :
             load = [status |-> "start", engine |-> engine, token |-> token,
                     filename |-> filename, custom_url |-> custom_url,
                     answer |-> answer, source |-> [kind |-> None],
                     result |-> [kind |-> None], outcome |-> None]

\* the source is read
ReadSource ==
    /\ load.status = "start"
    /\ LET r == read_source(load.engine, load.filename, load.answer)
       IN  load' = [load EXCEPT
                      !.source = r,
                      !.status = IF r.kind = Raise THEN "raised" ELSE "read"]
    /\ UNCHANGED <<ruleVars, monVars, reg>>

\* the text is parsed and completed
Parse ==
    /\ load.status = "read"
    /\ LET r == load_hero_state(load.source.text, load.token)
       IN  load' = [load EXCEPT
                      !.result = r,
                      !.status = IF r.kind = Raise THEN "raised" ELSE "done"]
    /\ UNCHANGED <<ruleVars, monVars, reg>>

\* the state is returned to the caller
Return ==
    /\ load.status = "done"
    /\ load' = [load EXCEPT !.status = "returned", !.outcome = "state"]
    /\ UNCHANGED <<ruleVars, monVars, reg>>

\* the exception reaches the caller
Except ==
    /\ load.status = "raised"
    /\ load' = [load EXCEPT
                  !.status = "returned",
                  !.outcome = caller(IF load.source.kind = Raise
                                     THEN load.source.error
                                     ELSE load.result.error)]
    /\ UNCHANGED <<ruleVars, monVars, reg>>

NextLoad ==
    \/ ReadSource
    \/ Parse
    \/ Return
    \/ Except

SpecLoad == InitLoad /\ [][NextLoad]_vars

\* ------------------------------------------------------- claims about Rule
\* C1: for a Rule created with ignore_first_result=False whose calls were never
\* skipped and whose condition never raised, with boolean condition results, the
\* action is invoked in a call exactly when the result is True and the result of
\* the previous call (False before the first call) was False; and within an
\* unbroken run of identical results the action is invoked at most once.
C1_EdgeTriggered ==
    (ncalls > 0 /\ ~created.ignore_first_result /\ clean) =>
        /\ all_bool =>
              (last_call.action_called <=>
                  (last_call.cond = "True" /\ last_call.prev_cond = "False"))
        /\ acted_in_run <= 1

\* C1 witness: five clean boolean calls with two rising edges, the second of them
\* in call 5, where the action runs (as in false,true,true,false,true).
C1_Witness ==
    /\ ncalls = 5 /\ ~created.ignore_first_result /\ clean /\ all_bool
    /\ rises = 2 /\ last_call.action_called /\ last_call.prev_cond = "False"

\* C2 (as stated): for a Rule created with ignore_first_result=True the first
\* rising transition runs no action and is the call that clears the flag.
C2_FirstRisingSuppressed ==
    (ncalls > 0 /\ created.ignore_first_result /\ last_call.rising /\ rises = 1) =>
        /\ ~last_call.action_called
        /\ last_call.before.ignore_first_result
        /\ ~rule.ignore_first_result

\* C2 (amended): for a Rule created with ignore_first_result=True the first call
\* whose condition returns a value runs no action and clears the flag, whatever
\* the result; every rising transition in a later call runs the action.
C2_FirstEvaluationSuppressed ==
    (ncalls > 0 /\ created.ignore_first_result) =>
        /\ (last_call.evaluated /\ evals = 1) =>
              /\ ~last_call.action_called
              /\ last_call.before.ignore_first_result
              /\ ~rule.ignore_first_result
        /\ (last_call.rising /\ evals > 1) =>
              /\ last_call.action_called
              /\ ~last_call.before.ignore_first_result

\* C2 witness: results false,true on a Rule created with the flag: the first
\* rising transition is in call 2 and the action runs there.
C2_Witness ==
    /\ created.ignore_first_result /\ clean /\ ncalls = 2
    /\ last_call.prev_cond = "False" /\ last_call.rising /\ rises = 1
    /\ last_call.action_called

\* C3: a call on a Rule with check_active and a snapshot whose `expired` is truthy
\* returns None, calls neither the condition nor the action and leaves the Rule
\* (_last_result and ignore_first_result) as it was.
C3_InactiveSuppression ==
    (ncalls > 0 /\ last_call.before.check_active /\ Truthy(last_call.expired)) =>
        /\ last_call.ret = None
        /\ ~last_call.cond_called
        /\ ~last_call.action_called
        /\ rule = last_call.before

\* C3 witness: an expired snapshot reaches a check_active Rule whose last result
\* is True.
C3_Witness ==
    /\ ncalls > 1 /\ rule.check_active /\ Truthy(last_call.expired)
    /\ rule.last_result = "True"

\* C4: a call whose condition raises returns None, does not call the action and
\* leaves _last_result and ignore_first_result as they were, so that _last_result
\* still is the last result that was observed.
C4_ConditionFailurePreservesState ==
    (ncalls > 0 /\ last_call.cond = Raise) =>
        /\ last_call.ret = None
        /\ ~last_call.action_called
        /\ rule = last_call.before
        /\ rule.last_result = observed

\* C4 witness: the condition raises on a Rule that still holds its flag.
C4_Witness ==
    /\ ncalls > 0 /\ last_call.cond = Raise /\ last_call.cond_called
    /\ rule.ignore_first_result

\* C6: when the action raises, check swallows the exception, returns the new
\* result and keeps _last_result at it; the next call with the same result does
\* not call the action again.
C6_ActionFailureKeepsTransition ==
    /\ (ncalls > 0 /\ last_call.action_raised) =>
          /\ ~last_call.propagated
          /\ Truthy(last_call.ret)
          /\ last_call.ret = last_call.cond
          /\ rule.last_result = last_call.cond
    /\ (ncalls > 0 /\ last_call.prev_action_raised /\ last_call.evaluated
          /\ last_call.cond = last_call.prev_cond) =>
          ~last_call.action_called

\* C6 witness: the call after one whose action raised sees the same result.
C6_Witness ==
    /\ ncalls > 0 /\ last_call.prev_action_raised /\ last_call.evaluated
    /\ last_call.cond = last_call.prev_cond

\* C7: _last_result is the condition result of the most recent call that was
\* neither skipped nor failed in the condition (False if there was none).
C7_LastResultIsObserved == rule.last_result = observed

\* C7 witness: a Rule created with the flag observed True (its action suppressed)
\* and its most recent call was skipped or failed.
C7_Witness ==
    /\ created.ignore_first_result /\ evals = 1 /\ observed = "True"
    /\ ncalls > 1 /\ ~last_call.evaluated

\* C8: ignore_first_result never goes from False to True and at most one call
\* changes it.
C8_FlagConsumedOnce ==
    /\ flag_changes <= 1
    /\ flag_changes = 0 => rule.ignore_first_result = created.ignore_first_result
    /\ flag_changes = 1 =>
          (created.ignore_first_result /\ ~rule.ignore_first_result)

\* C8 witness: the flag was consumed and two more evaluated calls followed.
C8_Witness == flag_changes = 1 /\ evals >= 3

\* C9: check returns None when the call was skipped, when the condition raised
\* and when the result equals _last_result; otherwise it returns the new result,
\* without calling the action when that result is falsy.
C9_ReturnValue ==
    ncalls > 0 =>
        LET c == last_call
            skipped == c.before.check_active /\ Truthy(c.expired)
        IN  /\ c.ret = IF skipped \/ c.cond = Raise
                          \/ c.cond = c.before.last_result
                       THEN None ELSE c.cond
            /\ ~Truthy(c.ret) => ~c.action_called
            /\ c.action_called => c.ret = c.cond

\* C9 witness: a falling edge, where check returns False.
C9_Witness == ncalls > 0 /\ last_call.ret = "False" /\ ~last_call.action_called

\* ---------------------------------------------------- claims about Monitor
\* C5: in a pass of check_status every rule is checked once, in order, also
\* after a rule whose condition or action raised; such a failure leaves the
\* process in the pass (it goes on to the next rule and to rendering) and no
\* exception leaves check_status once a rule has been checked.
C5_RuleIsolation ==
    /\ pc = "check" => mon.cycle.evaluated = [i \in 1..(ri - 1) |-> i]
    /\ pc = "render" => mon.cycle.evaluated = [i \in 1..Len(mon.rules) |-> i]
    /\ mon.cycle.failed # {} => pc \in {"check", "render"}
    /\ pc = "crashed" => mon.cycle.evaluated = <<>>

\* C5 witness: the condition of the first custom rule raised (it failed without
\* acting) and the last rule was still checked and posted its warning.
C5_Witness ==
    /\ pc = "render"
    /\ 2 \in mon.cycle.failed /\ 2 \notin mon.cycle.acted
    /\ Len(mon.rules) \in mon.cycle.acted \ mon.cycle.failed
    /\ Len(mon.cycle.evaluated) = Len(mon.rules)

\* C10: when the first fetch of the process fails with a network error (no
\* previous state exists) the process exits with status 1; no rule was checked,
\* no Rule changed and nothing was rendered.
C10_StartupFetchFailureIsFatal ==
    (mon.cycle.fetch = "neterr" /\ (first \/ mon.prev_state = NoneState)) =>
        /\ pc = "exit"
        /\ exit_status = "1"
        /\ mon.cycle.evaluated = <<>>
        /\ mon.cycle.rendered = 0
        /\ mon.state = EmptyDict
        /\ \A i \in 1..Len(mon.rules) :
              /\ mon.rules[i].last_result = "False"
              /\ i > 1 => mon.rules[i].ignore_first_result = ~mon.notify_on_start

\* C10 witness: the process has left after the failed first fetch, the
\* connection warning posted on the way.
C10_Witness ==
    /\ first /\ mon.cycle.fetch = "neterr" /\ pc = "exit"
    /\ mon.warning_windows = <<ConnectionMsg>>

\* how often x occurs in the sequence
Times(seq, x) == Cardinality({k \in DOMAIN seq : seq[k] = x})

\* what check_status hands to the rules for the state read_state returned
Handed(m) == {Update([engine |-> EngineId], m.cycle.returned)}

C12_RecoveryClearsError ==
    mon.cycle.fetch = "ok" =>
        /\ mon.error = None
        /\ mon.cycle.returned = mon.history.good
        /\ "error" \notin DOMAIN mon.cycle.returned
        /\ mon.state = mon.cycle.returned
        /\ mon.prev_state = mon.cycle.returned
        /\ mon.cycle.checked \subseteq Handed(mon)
        /\ \A k \in DOMAIN mon.cycle.shown : mon.cycle.shown[k] = mon.cycle.returned

\* a successful fetch right after a failed one
C12_Witness ==
    /\ pc = "check"
    /\ mon.cycle.fetch = "ok"
    /\ mon.cycle.prev_fetch = "neterr"
    /\ mon.error = None
    /\ "error" \notin DOMAIN mon.state

\* C13: an exception of the fetch that is no network error ends the process
\* with status 1, also when a previous state exists: nothing is returned, no
\* rule is checked and nothing is rendered.
C13_OtherErrorIsFatal ==
    mon.cycle.fetch = "other" =>
        /\ pc = "exit"
        /\ exit_status = "1"
        /\ mon.cycle.returned = NoneState
        /\ mon.cycle.evaluated = <<>>
        /\ mon.cycle.rendered = 0
        /\ Times(mon.cycle.asked, FatalMsg) = 1

\* such an exception with a previous state at hand
C13_Witness ==
    /\ mon.cycle.fetch = "other"
    /\ mon.prev_state # NoneState
    /\ mon.history.good # NoneState
    /\ pc = "exit"
    /\ exit_status = "1"

\* read_state has just returned or left the process: nothing of the cycle
\* record was reset yet
JustRead == pc = "exit" \/ (pc = "check" /\ ri = 1)

\* C14: with report_connection_errors = "once", a failed fetch calls
\* post_warning with the connection error exactly when the fetch before it did
\* not fail (the first fetch, or one that follows a success), so a run of failed
\* fetches is reported once, at its first failure; the warning opens a window
\* unless quiet is set.
C14_ReportOnce ==
    mon.report_connection_errors = "once" =>
        /\ Times(mon.cycle.asked, ConnectionMsg) <= 1
        /\ (mon.cycle.fetch = "neterr" /\ JustRead) =>
              /\ Times(mon.cycle.asked, ConnectionMsg) =
                    (IF mon.cycle.prev_fetch = "neterr" THEN 0 ELSE 1)
              /\ Times(mon.cycle.posted, ConnectionMsg) =
                    (IF mon.quiet THEN 0 ELSE Times(mon.cycle.asked, ConnectionMsg))

\* the second failure of a run: no warning
C14_Witness ==
    /\ mon.report_connection_errors = "once"
    /\ ~mon.quiet
    /\ pc = "check" /\ ri = 1
    /\ mon.cycle.fetch = "neterr"
    /\ mon.cycle.prev_fetch = "neterr"
    /\ Times(mon.cycle.asked, ConnectionMsg) = 0

C16_TokenWarning ==
    LET token == mon.cycle.returned # NoneState
                 /\ "token_expired" \in DOMAIN mon.cycle.returned
    IN  /\ (mon.cycle.fetch # None /\ mon.cycle.rendered = 0) =>
              /\ Times(mon.cycle.asked, TokenMsg) = (IF token THEN 1 ELSE 0)
              /\ Times(mon.cycle.posted, TokenMsg) =
                    (IF token /\ ~mon.quiet THEN 1 ELSE 0)
        /\ (mon.cycle.fetch = None \/ mon.cycle.rendered > 0) =>
              Times(mon.cycle.asked, TokenMsg) = 0
        /\ (pc = "check" /\ ri = 1) => mon.cycle.evaluated = <<>>

\* a stale state of an expired session with `token_expired`: the warning is
\* posted, before any rule was checked
C16_Witness ==
    /\ pc = "check" /\ ri = 1
    /\ mon.cycle.fetch = "neterr"
    /\ "token_expired" \in DOMAIN mon.cycle.returned
    /\ Get(mon.cycle.returned, "expired", "False") = "True"
    /\ Times(mon.cycle.posted, TokenMsg) = 1
    /\ mon.cycle.evaluated = <<>>

\* C17: a tick that reads an hour other than the one read at the tick before
\* fetches, also when the interval has not elapsed.
C17_HourBoundaryForcesFetch ==
    (mon.cycle.tick.ticked /\ mon.cycle.tick.hour_changed) => pc = "read"

\* a fetch forced by the hour alone
C17_Witness ==
    /\ mon.cycle.tick.ticked
    /\ mon.cycle.tick.hour_changed
    /\ ~mon.cycle.tick.interval_elapsed
    /\ pc = "read"
    /\ mon.prev_state # NoneState

\* C18: a tick fetches if the interval has elapsed; a tick with the interval not
\* elapsed and the hour unchanged goes on to handle_key without a fetch, a rule
\* check or a rendering, and leaves self.state, prev_state, self.error, the
\* rules and the open warnings as they were.
C18_FetchOnlyWhenDue ==
    [][pc = "tick" =>
         LET t == mon'.cycle.tick
         IN  /\ t.ticked
             /\ t.interval_elapsed => pc' = "read"
             /\ pc' = "read" <=> (t.interval_elapsed \/ t.hour_changed)
             /\ (~t.interval_elapsed /\ ~t.hour_changed) =>
                   /\ pc' = "key"
                   /\ mon'.state = mon.state
                   /\ mon'.prev_state = mon.prev_state
                   /\ mon'.error = mon.error
                   /\ mon'.rules = mon.rules
                   /\ mon'.warning_windows = mon.warning_windows
                   /\ mon'.expired_on_start = mon.expired_on_start
                   /\ mon'.cycle.fetch = None
                   /\ mon'.cycle.evaluated = <<>>
                   /\ mon'.cycle.rendered = 0]_vars

\* a tick that was not due, in a process that holds an error and a rule that
\* has fired
C18_Witness ==
    /\ mon.cycle.tick.ticked
    /\ ~mon.cycle.tick.interval_elapsed
    /\ ~mon.cycle.tick.hour_changed
    /\ pc = "key"
    /\ mon.error # None
    /\ mon.rules[2].last_result = "True"
    /\ mon.cycle.fetch = None

\* the rules of check_status were all checked, each once, in the order of
\* self.rules
AllChecked(m) == m.cycle.evaluated = [k \in 1..Len(m.rules) |-> k]

\* C19: in a fetch cycle read_state returns first, then check_status checks the
\* rules, then main_window.update renders; the rules are handed the state
\* read_state returned (with the engine id added) and the renderer is handed
\* that same state.
C19_CycleOrdering ==
    /\ mon.cycle.evaluated # <<>> =>
          /\ mon.cycle.fetch \in {"ok", "neterr"}
          /\ mon.cycle.returned # NoneState
    /\ pc = "check" => mon.cycle.rendered = 0 /\ mon.cycle.returned = mon.state
    /\ pc = "render" => /\ mon.cycle.rendered = 0
                        /\ AllChecked(mon)
                        /\ mon.cycle.returned = mon.state
    /\ (mon.cycle.fetch # None /\ mon.cycle.rendered > 0) =>
          /\ AllChecked(mon)
          /\ mon.cycle.checked = Handed(mon)
          /\ mon.cycle.shown = <<mon.cycle.returned>>
    /\ mon.cycle.checked \subseteq Handed(mon)

\* a whole cycle is over: fetched, checked on the fetched state, rendered
C19_Witness ==
    /\ pc = "key"
    /\ mon.cycle.fetch = "ok"
    /\ mon.cycle.rendered = 1
    /\ AllChecked(mon)
    /\ mon.cycle.checked = Handed(mon)
    /\ "token_expired" \in DOMAIN mon.cycle.returned
    /\ mon.cycle.shown = <<mon.cycle.returned>>

\* C20: self.rules is the built-in rule followed by the custom rules and never
\* changes in length or order; a pass of check_status calls check on rule 1, 2,
\* ... in this order, on each rule once, and hands all of them the same dict.
C20_RuleEngineOrder ==
    /\ Len(mon.rules) = NCustom + 1
    /\ mon.rules[1].check_active = FALSE
    /\ \A i \in 2..Len(mon.rules) :
          mon.rules[i].check_active = mon.notify_only_when_active
    /\ \A k \in DOMAIN mon.cycle.evaluated : mon.cycle.evaluated[k] = k
    /\ Len(mon.cycle.evaluated) <= Len(mon.rules)
    /\ pc = "check" => Len(mon.cycle.evaluated) = ri - 1
    /\ pc = "render" => Len(mon.cycle.evaluated) = Len(mon.rules)
    /\ Cardinality(mon.cycle.checked) <= 1

\* a pass in which the custom rules fired, after the built-in rule was checked
C20_Witness ==
    /\ pc = "render"
    /\ mon.cycle.evaluated = [k \in 1..(NCustom + 1) |-> k]
    /\ mon.cycle.acted = 2..(NCustom + 1)
    /\ Cardinality(mon.cycle.checked) = 1

\* main_loop is at the top of the loop for the first time
LoopEntry == pc = "tick" /\ ~mon.cycle.tick.ticked /\ mon.cycle.keyed = 0

\* C21: main_loop fetches the first state at once; until that state was
\* checked by every rule and rendered, the loop is not entered, no interval or
\* hour test is made and handle_key is not called.
C21_InitialCycle ==
    /\ first => /\ pc \in {"read", "check", "render", "exit", "crashed"}
                /\ ~mon.cycle.tick.ticked
                /\ mon.cycle.keyed = 0
                /\ mon.cycle.control = None
    /\ pc \in {"tick", "key"} => ~first /\ mon.history.good # NoneState
    /\ LoopEntry => /\ mon.cycle.fetch = "ok"
                    /\ AllChecked(mon)
                    /\ mon.cycle.checked = Handed(mon)
                    /\ mon.cycle.shown = <<mon.cycle.returned>>
                    /\ mon.cycle.returned = mon.history.good

\* the loop is entered with the first state fetched, checked and rendered
C21_Witness ==
    /\ LoopEntry
    /\ mon.cycle.rendered = 1
    /\ mon.state = mon.history.good
    /\ mon.rules[1].last_result = "True"

\* C22: every iteration of the loop that is not cut short by the end of the
\* process refreshes the topmost warning if a warning is open and then calls
\* handle_key once, after the fetch cycle if there was one.
C22_InputEveryTick ==
    /\ mon.cycle.keyed <= 1
    /\ mon.cycle.refreshed <= 1
    /\ pc = "tick" => (mon.cycle.keyed = 1 \/ LoopEntry)
    /\ pc = "key" => mon.cycle.tick.ticked /\ mon.cycle.keyed = 0
    /\ mon.cycle.keyed = 1 =>
          /\ pc \in {"tick", "exit", "crashed"}
          /\ Len(mon.warning_windows) # 0 => mon.cycle.refreshed = 1
          /\ (mon.cycle.refreshed = 1 /\ mon.cycle.control # " ") =>
                Len(mon.warning_windows) # 0
    /\ mon.cycle.keyed = 0 => mon.cycle.refreshed = 0

\* a key was handled in an iteration with an open warning
C22_Witness ==
    /\ pc = "tick"
    /\ mon.cycle.keyed = 1
    /\ mon.cycle.refreshed = 1
    /\ mon.cycle.control = "F"
    /\ Len(mon.warning_windows) # 0
    /\ mon.error # None

\* C23: when handle_key calls the control of `q` the process ends there with
\* status 0: nothing is fetched, checked or rendered after the key, and
\* finalize has restored the terminal.
C23_QuitIsImmediate ==
    mon.cycle.control = "q" =>
        /\ pc = "exit"
        /\ exit_status = "0"
        /\ mon.terminal = "restored"
        /\ mon.cycle.fetch = None
        /\ mon.cycle.evaluated = <<>>
        /\ mon.cycle.rendered = 0
        /\ mon.cycle.ran = <<>>

\* quit while a warning is open and an error is held
C23_Witness ==
    /\ mon.cycle.control = "q"
    /\ pc = "exit"
    /\ exit_status = "0"
    /\ mon.terminal = "restored"
    /\ Len(mon.warning_windows) # 0
    /\ mon.error # None

\* C24: the built-in rule, the first of self.rules, fires in a pass exactly
\* when `expired` of the state is truthy and was not so at the last pass.
\* Without autorefresh a firing calls post_warning once, with the session
\* warning, and calls neither refresh_session nor open_browser; with autorefresh
\* a firing posts nothing and calls exactly one of the two.  A pass in which the
\* rule does not fire does none of this.
C24_SessionExpiredRule ==
    [][(pc = "check" /\ ri = 1) =>
         LET e == Get(mon.state, "expired", "False")
             fired == 1 \in mon'.cycle.acted
             c == mon'.cycle
         IN  /\ fired <=> (Truthy(e) /\ ~Truthy(mon.rules[1].last_result))
             /\ (fired /\ ~mon.autorefresh) =>
                   /\ Times(c.asked, SessionMsg) = 1
                   /\ Times(c.posted, SessionMsg) = (IF mon.quiet THEN 0 ELSE 1)
                   /\ c.calls = <<>>
                   /\ c.ran = <<>>
             /\ (fired /\ mon.autorefresh) =>
                   /\ Times(c.asked, SessionMsg) = 0
                   /\ mon'.warning_windows = mon.warning_windows
                   /\ Len(c.calls) = 1
                   /\ c.calls[1] \in {"refresh_session", "open_browser"}
                   /\ Len(c.ran) <= 1
             /\ ~fired =>
                   /\ Times(c.asked, SessionMsg) = 0
                   /\ c.calls = <<>>
                   /\ c.ran = <<>>]_vars

\* the session expires during the run, without autorefresh: one warning
C24_Witness ==
    /\ pc = "check" /\ ri = 2
    /\ ~first
    /\ 1 \in mon.cycle.acted
    /\ ~mon.autorefresh /\ ~mon.quiet
    /\ Times(mon.cycle.posted, SessionMsg) = 1
    /\ mon.cycle.calls = <<>>

\* C25: expired_on_start is `expired` of the first state.  With autorefresh and
\* open_browser_on_start the handler calls open_browser only in the first cycle,
\* for a first state that is expired, and once; every firing in a later cycle
\* calls refresh_session.
C25_ExpiredOnStart ==
    /\ (first /\ pc = "check" /\ ri = 1) =>
          mon.expired_on_start = Get(mon.cycle.returned, "expired", "False")
    /\ (mon.autorefresh /\ ~first) => ~Truthy(mon.expired_on_start)
    /\ (mon.cycle.fetch # None /\ Times(mon.cycle.calls, "open_browser") > 0) =>
          /\ first
          /\ mon.autorefresh /\ mon.open_browser_on_start
          /\ Truthy(Get(mon.cycle.returned, "expired", "False"))
          /\ mon.cycle.calls = <<"open_browser">>
          /\ mon.expired_on_start = "False"
    /\ (mon.autorefresh /\ 1 \in mon.cycle.acted) =>
          mon.cycle.calls =
              (IF first /\ mon.open_browser_on_start
               THEN <<"open_browser">> ELSE <<"refresh_session">>)

\* the first state is expired: the browser is opened
C25_Witness ==
    /\ first
    /\ pc = "render"
    /\ mon.cycle.calls = <<"open_browser">>
    /\ mon.cycle.ran = <<"browser">>
    /\ mon.expired_on_start = "False"
    /\ Get(mon.state, "expired", "False") = "True"

\* C26: a custom rule whose call at registration returned a string posts
\* exactly that string every time it fires, whatever the other custom rules
\* returned.
C26_MessageBoundAtRegistration ==
    reg.status = "done" =>
        /\ \A k \in 2..Len(reg.rules) :
              reg.rules[k].action.text = reg.customs[k - 1].text
        /\ \A n \in DOMAIN reg.fired :
              reg.fired[n].text = reg.customs[reg.fired[n].rule - 1].text

\* two custom rules with different messages: the first one fires twice
C26_Witness ==
    /\ reg.status = "done"
    /\ Len(reg.customs) >= 2
    /\ reg.customs[1].text # reg.customs[2].text
    /\ Len(reg.fired) = 2
    /\ reg.fired[1].rule = 2 /\ reg.fired[2].rule = 2
    /\ reg.fired[2].text = reg.customs[1].text

\* C27 (as the claim states it): when the functions of rules.py return strings
\* or callables at registration, init_status_checkers completes, registers a
\* Rule for every function, and the action of a function that returned a
\* callable is that callable.
C27_CallableAccepted ==
    (/\ reg.status \in {"done", "crashed"}
     /\ \A k \in DOMAIN reg.customs : reg.customs[k].type \in {"str", "callable"}) =>
        /\ reg.status = "done"
        /\ Len(reg.rules) = Len(reg.customs) + 1
        /\ \A k \in DOMAIN reg.customs :
              reg.customs[k].type = "callable" =>
                  reg.rules[k + 1].action.type = "callable"

\* a callable between two strings: the registration ends in a NameError with
\* the rule of the callable and the rule after it not registered
C27_Witness ==
    /\ reg.status = "crashed"
    /\ reg.error = "NameError"
    /\ Len(reg.customs) = 3
    /\ reg.customs[1].type = "str"
    /\ reg.customs[2].type = "callable"
    /\ reg.customs[3].type = "str"
    /\ Len(reg.rules) = 2

\* C28 (as the claim states it): when the dump file cannot be read, the
\* process ends with status 1 if there is no previous state, and otherwise
\* read_state returns the previous state to the rules and the renderer; it
\* does not return None and does not set prev_state to None.
C28_FileSourceLikeLiveFetch ==
    mon.cycle.fetch = "ioerror" =>
        IF mon.history.good = NoneState
        THEN pc \in {"exit", "crashed"} /\ exit_status = "1"
        ELSE /\ pc \in {"check", "render", "key"}
             /\ mon.cycle.returned # NoneState
             /\ mon.prev_state # NoneState
             /\ mon.state # NoneState

\* the dump file was read once and then cannot be read: read_state has
\* returned None, prev_state is None and a TypeError has ended main_loop
C28_Witness ==
    /\ mon.cycle.fetch = "ioerror"
    /\ mon.history.good # NoneState
    /\ mon.cycle.returned = NoneState
    /\ mon.prev_state = NoneState
    /\ mon.state = NoneState
    /\ pc = "crashed"
    /\ mon.cycle.evaluated = <<>>

\* C29 (as the claim states it): for every engine of KNOWN_ENGINES, a live
\* fetch gives raw text when the server answers and fails with a network error
\* when the connection fails; with no engine does a live fetch against an
\* answering server end the process.
C29_EnginesInterchangeable ==
    (load.status \notin {"idle", "start"} /\ ~load.filename) =>
        /\ load.answer.kind = "neterr" =>
              load.source = [kind |-> Raise, error |-> "neterr"]
        /\ load.answer.kind \in {"text", "state", "auth"} =>
              /\ load.source.kind = "text"
              /\ load.outcome = "exit" => load.result.kind = Raise

\* the engine is godvillenet, its server would answer with a complete state,
\* and the live fetch has raised TypeError and ended the process
C29_Witness ==
    /\ load.status = "returned"
    /\ load.engine = "godvillenet"
    /\ ~load.filename
    /\ load.answer.kind = "text"
    /\ IsJson(load.answer.text)
    /\ "health" \in DOMAIN json_loads(load.answer.text)
    /\ load.source = [kind |-> Raise, error |-> "TypeError"]
    /\ load.outcome = "exit"

\* C30: when the parsed state has no `health`, the state load_hero_state returns
\* has every placeholder key, every field of the source other than token_expired
\* keeps its source value, every other field is a placeholder with its default
\* value, token_expired is True exactly when a token was given or the source
\* carried it as True, and without a token it is as the source had it; when the
\* parsed state has `health` it is returned as it is.
C30_Placeholders ==
    load.status \in {"done", "returned"} /\ load.result.kind = "ok" =>
        LET src == load.result.parsed
            res == load.result.state
        IN  IF "health" \notin DOMAIN src
            THEN /\ DOMAIN default_state \subseteq DOMAIN res
                 /\ \A k \in DOMAIN src \ {"token_expired"} : res[k] = src[k]
                 /\ \A k \in DOMAIN res \ (DOMAIN src \cup {"token_expired"}) :
                       k \in DOMAIN default_state /\ res[k] = default_state[k]
                 /\ Get(res, "token_expired", Absent) = "True"
                       <=> (load.token
                            \/ Get(src, "token_expired", Absent) = "True")
                 /\ ~load.token =>
                       Get(res, "token_expired", Absent)
                          = Get(src, "token_expired", Absent)
            ELSE res = src

\* a state without health that supplies level, loaded with a token, has been
\* completed: level keeps the source's value, health is the placeholder and
\* token_expired is True
C30_Witness ==
    /\ load.status = "done"
    /\ load.token
    /\ load.result.kind = "ok"
    /\ "health" \notin DOMAIN load.result.parsed
    /\ "level" \in DOMAIN load.result.parsed
    /\ "token_expired" \notin DOMAIN load.result.parsed
    /\ load.result.state["level"] = SourceValue
    /\ load.result.state["health"] = "1"
    /\ load.result.state["token_expired"] = "True"

\* C31: warning_windows is a stack.  A step of the fetch cycle appends the
\* warnings it posts, in the order they are posted, above the warnings already
\* open; handle_key with the space key removes the last warning and leaves the
\* others in their order, and changes nothing when no warning is open; no other
\* step changes warning_windows; and an iteration refreshes the window at the
\* top of the stack and no other.
C31_WarningStack ==
    [][LET ww == mon.warning_windows
           posted == mon.cycle.posted
       IN  /\ pc \in {"read", "fetching", "check"} =>
                 /\ Len(mon'.cycle.posted) >= Len(posted)
                 /\ SubSeq(mon'.cycle.posted, 1, Len(posted)) = posted
                 /\ mon'.warning_windows =
                       ww \o SubSeq(mon'.cycle.posted, Len(posted) + 1,
                                    Len(mon'.cycle.posted))
           /\ pc \in {"render", "tick"} => mon'.warning_windows = ww
           /\ pc = "key" =>
                 /\ mon'.cycle.refreshed = (IF Len(ww) # 0 THEN 1 ELSE 0)
                 /\ mon'.cycle.refreshed_at = Len(ww)
                 /\ mon'.warning_windows =
                       IF mon'.cycle.control = " " /\ Len(ww) # 0
                       THEN SubSeq(ww, 1, Len(ww) - 1)
                       ELSE ww]_vars

\* with three warnings open, the last of them posted after the other two, the
\* space key has removed one: the two older ones are left, and the window
\* refreshed before was the third
C31_Witness ==
    /\ pc = "tick"
    /\ mon.cycle.control = " "
    /\ mon.cycle.refreshed_at = 3
    /\ mon.warning_windows = <<TokenMsg, CustomMsg(2)>>

\* C32: never more than one call of load_hero_state is waiting for its answer,
\* and while one is waiting the only step taken is the one that ends it: no
\* rule is evaluated, nothing is rendered and no key is handled before that.
C32_NoConcurrentFetch ==
    [][/\ InFlight(load') <= 1
       /\ InFlight(load) > 0 =>
             /\ InFlight(load') = InFlight(load) - 1
             /\ pc = "fetching"
             /\ mon'.rules = mon.rules
             /\ mon'.cycle.evaluated = mon.cycle.evaluated
             /\ mon'.cycle.rendered = mon.cycle.rendered
             /\ mon'.cycle.keyed = mon.cycle.keyed]_vars

\* a fetch of the loop (not the first one) is waiting for its answer
C32_Witness ==
    /\ InFlight(load) = 1
    /\ pc = "fetching"
    /\ ~first
    /\ mon.cycle.tick.ticked

\* C33: for a Rule created with ignore_first_result=True, the flag stays set
\* until the first call whose condition returns a value; that call invokes no
\* action and clears the flag, whatever the value returned and whether or not it
\* differs from _last_result; a call that is skipped for inactivity or whose
\* condition raises leaves the flag as it was.
C33_StartupSuppression ==
    (ncalls > 0 /\ created.ignore_first_result) =>
        /\ (last_call.evaluated /\ evals = 1) =>
              /\ ~last_call.action_called
              /\ last_call.before.ignore_first_result
              /\ ~rule.ignore_first_result
        /\ ~last_call.evaluated =>
              rule.ignore_first_result = last_call.before.ignore_first_result
        /\ rule.ignore_first_result <=> evals = 0

\* after calls that were skipped or whose condition raised, the first value the
\* condition returns is True: no action is invoked and the flag is cleared
C33_Witness ==
    /\ created.ignore_first_result
    /\ ncalls >= 3
    /\ evals = 1
    /\ last_call.evaluated
    /\ last_call.cond = "True"
    /\ last_call.before.ignore_first_result
    /\ ~last_call.action_called
    /\ ~rule.ignore_first_result

\* C34: for a Rule created with check_active set and ignore_first_result clear,
\* a call on an expired snapshot calls neither the condition nor the action,
\* and a call on a snapshot that is not expired whose condition returns a
\* truthy value, when the last value the condition returned before (False if
\* none) was falsy, invokes the action, however many calls were skipped or
\* raised in between.
C34_DeferredFiring ==
    (ncalls > 0 /\ created.check_active /\ ~created.ignore_first_result) =>
        /\ Truthy(last_call.expired) =>
              /\ ~last_call.cond_called
              /\ ~last_call.action_called
        /\ last_call.rising =>
              /\ ~Truthy(last_call.expired)
              /\ last_call.action_called

\* the condition was last seen False, the calls since then were skipped on
\* expired snapshots, and on this snapshot, which is not expired, the
\* condition returns True: the action is invoked
C34_Witness ==
    /\ created.check_active /\ ~created.ignore_first_result
    /\ ncalls >= 3
    /\ evals = 2
    /\ last_call.prev_cond = None
    /\ ~Truthy(last_call.expired)
    /\ last_call.cond = "True"
    /\ last_call.before.last_result = "False"
    /\ last_call.rising
    /\ last_call.action_called

\* C35: in a fetch cycle whose fetch failed with a network error and fell back
\* to the previous state, the built-in rule is given the `expired` value of the
\* last state that was loaded, its _last_result stays that value, and
\* handle_expired_session is not invoked: the rule's action is not called, no
\* session warning is asked for and neither open_browser nor refresh_session is
\* called.
C35_FallbackKeepsExpiry ==
    (mon.cycle.fetch = "neterr" /\ pc \in {"check", "render", "crashed"}) =>
        LET seen == Get(mon.history.good, "expired", "False")
        IN  /\ Get(mon.state, "expired", "False") = seen
            /\ \A info \in mon.cycle.checked :
                  Get(info, "expired", "False") = seen
            /\ mon.rules[1].last_result = seen
            /\ 1 \notin mon.cycle.acted
            /\ Times(mon.cycle.asked, SessionMsg) = 0
            /\ mon.cycle.calls = <<>>

\* with the policy "once" a failed cycle that asks for no connection warning is
\* at least the second failure in a row; the state kept is expired, the
\* built-in rule has been evaluated on it and its action was not called
C35_Witness ==
    /\ pc = "render"
    /\ mon.cycle.fetch = "neterr"
    /\ mon.report_connection_errors = "once"
    /\ Times(mon.cycle.asked, ConnectionMsg) = 0
    /\ Get(mon.state, "expired", "False") = "True"
    /\ mon.cycle.evaluated # <<>>
    /\ mon.cycle.evaluated[1] = 1
    /\ mon.rules[1].last_result = "True"
    /\ 1 \notin mon.cycle.acted

\* C36 (as the claim states it): in an unbroken run of evaluated snapshots
\* whose `expired` field is truthy, whatever truthy values it takes, the
\* built-in rule calls handle_expired_session at most once.
C36_OneActionPerExpiredRun ==
    mon.history.run_acts <= 1

\* `expired` was True in one snapshot and another truthy value in the next:
\* the built-in rule has called handle_expired_session for each of them, and
\* the second session warning is open
C36_Witness ==
    /\ mon.history.in_run
    /\ mon.history.run_acts = 2
    /\ pc = "check" /\ ri = 2
    /\ 1 \in mon.cycle.acted
    /\ mon.expired_on_start = "True"
    /\ Get(mon.state, "expired", "False") = "Other"
    /\ mon.warning_windows = <<SessionMsg>>

\* C37: with quiet set no warning is ever open and neither a warning is posted
\* nor the notification command run, whatever warnings post_warning is asked
\* for; and a rule.check of check_status leaves the rules, and the place where
\* the loop over the rules goes on, as it leaves them for the same Monitor
\* without quiet, whatever the condition returns and the action does.
C37_Quiet ==
    /\ mon.quiet =>
          /\ mon.warning_windows = <<>>
          /\ mon.cycle.posted = <<>>
          /\ mon.cycle.notified = <<>>
    /\ (mon.quiet /\ pc = "check") =>
          \A cond \in CustomOutcomes, ext \in ActOutcome :
              LET q == check_rule(mon, mon.state, ri, cond, ext)
                  l == check_rule([mon EXCEPT !.quiet = FALSE], mon.state, ri,
                                  cond, ext)
              IN  /\ q.m.rules = l.m.rules
                  /\ q.next = l.next
                  /\ q.m.cycle.acted = l.m.cycle.acted
                  /\ q.m.cycle.asked = l.m.cycle.asked

\* with quiet set a fetch cycle has asked for the connection warning, the token
\* warning and the warning of a custom rule, whose result is recorded, and no
\* warning is open
C37_Witness ==
    /\ mon.quiet
    /\ pc = "render"
    /\ Times(mon.cycle.asked, ConnectionMsg) = 1
    /\ Times(mon.cycle.asked, TokenMsg) = 1
    /\ Len(mon.cycle.asked) = 3
    /\ mon.cycle.asked[3] = CustomMsg(2)
    /\ 2 \in mon.cycle.acted
    /\ mon.rules[2].last_result = "True"
    /\ mon.warning_windows = <<>>
    /\ mon.cycle.notified = <<>>

\* C38: every rule of a fetch cycle is checked on one dict, which has the
\* fields of the state read_state returned with their values and the field
\* `engine`, equal to the engine id unless the state has a field `engine` of
\* its own; while and after the rules are checked self.state is the state
\* read_state returned, and that state is what is rendered.
C38_EngineField ==
    /\ mon.cycle.evaluated # <<>> =>
          /\ Cardinality(mon.cycle.checked) = 1
          /\ \A info \in mon.cycle.checked :
                /\ DOMAIN info = DOMAIN mon.cycle.returned \cup {"engine"}
                /\ \A k \in DOMAIN mon.cycle.returned :
                      info[k] = mon.cycle.returned[k]
                /\ "engine" \notin DOMAIN mon.cycle.returned =>
                      info["engine"] = EngineId
    /\ (pc \in {"check", "render"} \/ mon.cycle.evaluated # <<>>) =>
          mon.state = mon.cycle.returned
    /\ (mon.cycle.fetch # None /\ mon.cycle.rendered > 0) =>
          mon.cycle.shown = <<mon.cycle.returned>>

\* a state with a field `engine` of its own has been checked by all rules with
\* that field kept, and rendered as it was returned
C38_Witness ==
    /\ pc \in {"tick", "key"}
    /\ Len(mon.cycle.evaluated) = Len(mon.rules)
    /\ "engine" \in DOMAIN mon.cycle.returned
    /\ mon.cycle.returned["engine"] = OtherEngine
    /\ \A info \in mon.cycle.checked : info["engine"] = OtherEngine
    /\ mon.cycle.shown = <<mon.cycle.returned>>

====
